---- MODULE Spec2Model ----
(***************************************************************************)
(* Model of the HAR replay server (src/src/server.ts) and of the SAZ to    *)
(* HAR converter (src/src/saz-converter.ts).                               *)
(*                                                                         *)
(* Strings that the code parses (bodies, query strings) are sequences of   *)
(* one-character tokens, so that parsing, sorting and serialising are      *)
(* computed and not assumed.                                               *)
(***************************************************************************)
EXTENDS Integers, Sequences, FiniteSets, TLC

(***************************************************************************)
(* Bounds of the model.                                                    *)
(***************************************************************************)
\* requests suspended in getRequestBody at once, on a server that is not reloading
MaxInflight == 2
\* requests suspended in getRequestBody at once, on a server that reloads
MaxPending == 1
\* loadHars calls in progress at once
MaxLoads == 1
\* loadHars calls in progress at once, on a server that takes no replay request
MaxReloads == 2
\* fallback serves an observation window of a ReplayState holds
MaxWindow == 3

(***************************************************************************)
(* Text helpers.                                                           *)
(***************************************************************************)
\* code-unit order of the tokens used in names (String.prototype compare)
TokRank(t) ==
    CASE t = "%" -> 1 [] t = "&" -> 2 [] t = "1" -> 3 [] t = "2" -> 4
      [] t = "=" -> 5 [] t = "a" -> 6 [] t = "b" -> 7 [] t = "x" -> 8
      [] t = "y" -> 9 [] t = "{" -> 10 [] t = "}" -> 11 [] OTHER -> 12

RECURSIVE SeqLess(_, _)
\* a < b for two token sequences, compared code unit by code unit
SeqLess(a, b) ==
    IF b = <<>> THEN FALSE
    ELSE IF a = <<>> THEN TRUE
    ELSE IF TokRank(Head(a)) < TokRank(Head(b)) THEN TRUE
    ELSE IF TokRank(Head(a)) > TokRank(Head(b)) THEN FALSE
    ELSE SeqLess(Tail(a), Tail(b))

Min(S) == CHOOSE x \in S : \A y \in S : x <= y

RECURSIVE IndexOfTok(_, _, _)
\* first position >= i of token t in s, 0 when absent (indexOf)
IndexOfTok(s, t, i) ==
    IF i > Len(s) THEN 0
    ELSE IF s[i] = t THEN i
    ELSE IndexOfTok(s, t, i + 1)

RECURSIVE SplitTok(_, _)
\* s.split(t): the pieces of s between the occurrences of t
SplitTok(s, t) ==
    LET i == IndexOfTok(s, t, 1) IN
    IF i = 0 THEN <<s>>
    ELSE <<SubSeq(s, 1, i - 1)>> \o SplitTok(SubSeq(s, i + 1, Len(s)), t)

(***************************************************************************)
(* URLSearchParams: parse, sort (stable, by name) and toString.            *)
(***************************************************************************)
\* one "name=value" piece: split at the first "="
ParsePair(p) ==
    LET i == IndexOfTok(p, "=", 1) IN
    IF i = 0 THEN [name |-> p, value |-> <<>>]
    ELSE [name |-> SubSeq(p, 1, i - 1), value |-> SubSeq(p, i + 1, Len(p))]

RECURSIVE ParsePairs(_)
ParsePairs(ps) ==
    IF ps = <<>> THEN <<>>
    ELSE IF Head(ps) = <<>> THEN ParsePairs(Tail(ps))
    ELSE <<ParsePair(Head(ps))>> \o ParsePairs(Tail(ps))

\* new URLSearchParams(text): empty pieces are dropped
URLSearchParams(text) == ParsePairs(SplitTok(text, "&"))

RECURSIVE InsertParam(_, _)
\* insert p after every element whose name is <= p.name (stable)
InsertParam(sorted, p) ==
    IF sorted = <<>> THEN <<p>>
    ELSE IF SeqLess(p.name, Head(sorted).name) THEN <<p>> \o sorted
    ELSE <<Head(sorted)>> \o InsertParam(Tail(sorted), p)

RECURSIVE SortParams(_)
\* URLSearchParams.sort(): stable sort by name only
SortParams(ps) ==
    IF ps = <<>> THEN <<>>
    ELSE InsertParam(SortParams(SubSeq(ps, 1, Len(ps) - 1)), ps[Len(ps)])

RECURSIVE EncodeToks(_)
\* percent-encoding of the separators inside a name or a value
EncodeToks(s) ==
    IF s = <<>> THEN <<>>
    ELSE (CASE Head(s) = "=" -> <<"%", "3", "D">>
            [] Head(s) = "&" -> <<"%", "2", "6">>
            [] Head(s) = "%" -> <<"%", "2", "5">>
            [] OTHER -> <<Head(s)>>) \o EncodeToks(Tail(s))

RECURSIVE ParamsToString(_)
\* URLSearchParams.toString()
ParamsToString(ps) ==
    IF ps = <<>> THEN <<>>
    ELSE EncodeToks(Head(ps).name) \o <<"=">> \o EncodeToks(Head(ps).value)
         \o (IF Len(ps) > 1 THEN <<"&">> ELSE <<>>) \o ParamsToString(Tail(ps))

compareURLSearchParams(p1, p2) ==
    ParamsToString(SortParams(p1)) = ParamsToString(SortParams(p2))

\* the query strings of the two URLs, parsed and compared
compareQueryParams(reqQuery, harQuery) ==
    compareURLSearchParams(URLSearchParams(reqQuery), URLSearchParams(harQuery))

(***************************************************************************)
(* JSON.parse on the texts of the model: a number, a string, or a flat     *)
(* object of key : value members.  Everything else is a SyntaxError.       *)
(***************************************************************************)

\* the values: the numbers 1 and 2 and the string "1"
IsValueTok(t) == t \in {"1", "2", "\"1\""}

\* one member "k : v" of an object
JsonMemberOk(m) == Len(m) = 3 /\ (m[1] \in {"a", "b", "x", "y"}) /\ m[2] = ":" /\ IsValueTok(m[3])

RECURSIVE JsonMembers(_, _)
\* the object built member by member; a repeated key keeps the last value
JsonMembers(ms, acc) ==
    IF ms = <<>> THEN acc
    ELSE LET m == Head(ms) IN
         JsonMembers(Tail(ms),
                     {kv \in acc : kv[1] # m[1]} \cup {<<m[1], m[3]>>})

JSONParse(text) ==
    IF Len(text) = 1 /\ IsValueTok(text[1])
    THEN [ok |-> TRUE, type |-> "primitive", members |-> {<<"", text[1]>>}]
    ELSE IF Len(text) >= 2 /\ text[1] = "{" /\ text[Len(text)] = "}"
    THEN LET inner == SubSeq(text, 2, Len(text) - 1)
             ms == IF inner = <<>> THEN <<>> ELSE SplitTok(inner, ",")
         IN IF \A i \in 1..Len(ms) : JsonMemberOk(ms[i])
            THEN [ok |-> TRUE, type |-> "object", members |-> JsonMembers(ms, {})]
            ELSE [ok |-> FALSE, type |-> "none", members |-> {}]
    ELSE [ok |-> FALSE, type |-> "none", members |-> {}]

\* assert.deepEqual (legacy mode) on two parsed values: same kind, same
\* keys in whatever order, the primitives compared with ==, under which the
\* number 1 and the string "1" are equal
deepEqual(v1, v2) ==
    LET loose(v) == {<<kv[1], IF kv[2] = "\"1\"" THEN "1" ELSE kv[2]>> : kv \in v.members}
    IN v1.type = v2.type /\ loose(v1) = loose(v2)

(***************************************************************************)
(* compareBody                                                             *)
(***************************************************************************)
NoPostData == [present |-> FALSE, hasText |-> FALSE, mimeType |-> "", text |-> <<>>]

\* mimeType.split(';')[0].trim() on the MIME strings of the model
MimeBase(mimeType) ==
    CASE mimeType = "application/json; charset=utf-8" -> "application/json"
      [] OTHER -> mimeType

\* the JSON bodies compared as texts
compareBodyAsText(reqBody, harPostData) ==
    IF ~harPostData.present \/ ~harPostData.hasText THEN reqBody = <<>>
    ELSE LET harMimeType == MimeBase(harPostData.mimeType)
             harBody == harPostData.text
         IN CASE harMimeType = "application/json" ->
                   reqBody = harBody
              [] harMimeType = "application/x-www-form-urlencoded" ->
                   compareURLSearchParams(URLSearchParams(reqBody), URLSearchParams(harBody))
              [] OTHER -> reqBody = harBody

\* a candidate without body text matching every body
compareBodyNoTextAny(reqBody, harPostData) ==
    IF ~harPostData.present \/ ~harPostData.hasText THEN TRUE
    ELSE LET harMimeType == MimeBase(harPostData.mimeType)
             harBody == harPostData.text
         IN CASE harMimeType = "application/json" ->
                   LET a == JSONParse(IF reqBody = <<>> THEN <<"{", "}">> ELSE reqBody)
                       b == JSONParse(IF harBody = <<>> THEN <<"{", "}">> ELSE harBody)
                   IN a.ok /\ b.ok /\ deepEqual(a, b)
              [] harMimeType = "application/x-www-form-urlencoded" ->
                   compareURLSearchParams(URLSearchParams(reqBody), URLSearchParams(harBody))
              [] OTHER -> reqBody = harBody

\* the catch block answering true
compareBodyCatchTrue(reqBody, harPostData) ==
    IF ~harPostData.present \/ ~harPostData.hasText THEN reqBody = <<>>
    ELSE LET harMimeType == MimeBase(harPostData.mimeType)
             harBody == harPostData.text
         IN CASE harMimeType = "application/json" ->
                   LET a == JSONParse(IF reqBody = <<>> THEN <<"{", "}">> ELSE reqBody)
                       b == JSONParse(IF harBody = <<>> THEN <<"{", "}">> ELSE harBody)
                   IN ~a.ok \/ ~b.ok \/ deepEqual(a, b)
              [] harMimeType = "application/x-www-form-urlencoded" ->
                   compareURLSearchParams(URLSearchParams(reqBody), URLSearchParams(harBody))
              [] OTHER -> reqBody = harBody

compareBody(reqBody, harPostData) ==
    IF ~harPostData.present \/ ~harPostData.hasText THEN reqBody = <<>>
    ELSE LET harMimeType == MimeBase(harPostData.mimeType)
             harBody == harPostData.text
         IN CASE harMimeType = "application/json" ->
                   LET a == JSONParse(IF reqBody = <<>> THEN <<"{", "}">> ELSE reqBody)
                       b == JSONParse(IF harBody = <<>> THEN <<"{", "}">> ELSE harBody)
                   IN a.ok /\ b.ok /\ deepEqual(a, b)
              [] harMimeType = "application/x-www-form-urlencoded" ->
                   compareURLSearchParams(URLSearchParams(reqBody), URLSearchParams(harBody))
              [] OTHER -> reqBody = harBody

(***************************************************************************)
(* The archive documents.  File 1 is the initial source given on the       *)
(* command line and stays on disk; file 2 lives in the storage directory   *)
(* and comes and goes with upload and delete; file 3 is a second source    *)
(* of the command line, which some deployments have.                       *)
(***************************************************************************)
QueryXY == <<"x", "=", "1", "&", "y", "=", "2">>

PostData(mimeType, text) ==
    [present |-> TRUE, hasText |-> TRUE, mimeType |-> mimeType, text |-> text]

HarEntry(id, method, hasUrl, urlPath, query, postData, hasResponse) ==
    [id |-> id, method |-> method, hasMethod |-> method # "", hasUrl |-> hasUrl,
     path |-> urlPath, query |-> query, postData |-> postData,
     hasResponse |-> hasResponse]

\* the entries of the documents, in entry order
HarFileEntries(f) ==
    CASE f = 1 ->
         << HarEntry(1, "GET", TRUE, "/a", QueryXY, NoPostData, TRUE),
            HarEntry(2, "post", TRUE, "/a", <<>>, PostData("text/plain", <<"a">>), TRUE) >>
      [] f = 2 ->
         << HarEntry(6, "GET", TRUE, "/a", <<>>, NoPostData, FALSE),
            HarEntry(7, "POST", TRUE, "/a", <<>>, NoPostData, TRUE),
            HarEntry(8, "", TRUE, "/a", <<>>, NoPostData, TRUE) >>
      [] OTHER ->
         << HarEntry(3, "GET", TRUE, "/a", <<"y", "=", "2", "&", "x", "=", "1">>, NoPostData, TRUE),
            HarEntry(4, "POST", TRUE, "/a", <<>>,
                     PostData("application/json; charset=utf-8", <<"{", "a", ":", "1", ",", "b", ":", "2", "}">>), TRUE),
            HarEntry(5, "get", TRUE, "/a", <<"x", "=", "1">>, NoPostData, TRUE) >>

InitialFile == 1
StorageFile == 2
ExtraFile == 3
\* a document of the storage directory that JSON.parse rejects
BrokenFile == 4

\* readFile, JSON.parse and harJson.log.entries: the entries the loop of
\* _processSingleHarFile runs over; when the parse throws the catch block
\* logs the error and nothing of the document is indexed
ReadHarAnyway(f) == HarFileEntries(f)

ReadHar(f) == IF f = BrokenFile THEN <<>> ELSE HarFileEntries(f)

AllEntries == UNION {{HarFileEntries(f)[i] : i \in DOMAIN HarFileEntries(f)} : f \in {InitialFile, StorageFile, ExtraFile}}
EntryIds == {e.id : e \in AllEntries}
EntryOf == [id \in EntryIds |-> CHOOSE e \in AllEntries : e.id = id]

\* String.prototype.toUpperCase on the method names of the model
ToUpperCase(m) ==
    CASE m = "get" -> "GET" [] m = "post" -> "POST" [] OTHER -> m

\* GET awaiting a body like the methods that carry one
METHODS_WITH_BODY_AND_GET == {"POST", "PUT", "PATCH", "DELETE", "GET"}

METHODS_WITH_BODY == {"POST", "PUT", "PATCH", "DELETE"}

Methods == {"GET", "POST"}
Keys == Methods \X {"/a"}
\* the paths a client asks for; nothing is recorded for "/b"
LivePaths == {"/a", "/b"}

\* what a client may send
LiveQueries == {<<>>, QueryXY}
LiveBodies == {<<>>, <<"b">>, <<"{", "b", ":", "2", ",", "a", ":", "1", "}">>}

(***************************************************************************)
(* State.                                                                  *)
(***************************************************************************)
VARIABLES
    disk,           \* the documents that exist
    loadedHarFiles, \* this.loadedHarFiles
    harDataMap,     \* this.harDataMap: (method, path) -> ReplayState object, 0 = absent
    heap,           \* the ReplayState objects
    loads,          \* the loadHars calls in progress
    reqs,           \* the replay requests suspended in getRequestBody
    ev,             \* the last thing the server did, as seen from outside
    conv,           \* a call of convertSazToHar: its position, its locals, its files
    call            \* a call of one function on its own: its arguments, its result

serverVars == <<disk, loadedHarFiles, harDataMap, heap, loads, reqs, ev>>
vars == <<disk, loadedHarFiles, harDataMap, heap, loads, reqs, ev, conv, call>>

\* no conversion under way
NoConversion ==
    [pc |-> "idle", files |-> <<>>, todo |-> <<>>, sazData |-> <<>>, tempDir |-> FALSE,
     harFile |-> [written |-> FALSE, entries |-> <<>>], result |-> "none",
     error |-> "none"]

\* no function is being called on its own
NoCall == [pc |-> "idle", fn |-> "none"]

ObjIds == 1..(Cardinality(Keys) + (IF MaxInflight > MaxPending THEN MaxInflight ELSE MaxPending))
Slots == DOMAIN reqs
LoadIds == DOMAIN loads

\* a ReplayState: entries and currentIndex are the program's fields.  An
\* observed object also carries a window on its serves: the cursor at the
\* start of the window (base), the entries served by fallback since (fb)
\* and whether attribute-matched serves fell in the window (nm)
FreeObj == [entries |-> <<>>, currentIndex |-> 0, obs |-> FALSE,
            base |-> 0, fb |-> <<>>, nm |-> 0]

IdleLoad == [pc |-> "idle", todo |-> <<>>]
\* rank is the place of a suspended request among the suspended ones, in
\* the order of their arrival: 1 is the one that arrived first
IdleReq == [pc |-> "idle", method |-> "", path |-> "", obj |-> 0,
            phase |-> 0, watch |-> 0, pre |-> <<>>, rank |-> 0]

NoEvent == [kind |-> "none", method |-> "", path |-> "", query |-> <<>>, body |-> <<>>,
            status |-> 0, how |-> "none", served |-> 0, list |-> <<>>, cursor |-> 0,
            bodyRead |-> FALSE, phase |-> 0, pre |-> <<>>, count |-> 0, rank |-> 0]

Referenced(map, rq, o) ==
    \/ \E k \in Keys : map[k] = o
    \/ \E r \in DOMAIN rq : rq[r].pc = "await" /\ rq[r].obj = o


\* the identity an object is known by after a collection: the objects of
\* the map come first, in key order, then the objects only requests hold
NewId(map, rq, o) ==
    IF \E k \in Keys : map[k] = o
    THEN (IF (CHOOSE k \in Keys : map[k] = o)[1] = "GET" THEN 1 ELSE 2)
    ELSE LET holders == {r \in DOMAIN rq : rq[r].pc = "await" /\ rq[r].obj = o}
         IN Cardinality(Keys) + (CHOOSE r \in holders : \A q \in holders : r <= q)

\* garbage collection: objects nothing refers to are dropped, the others
\* are compacted; the result is the same program state
Collect(map, h, rq) ==
    LET used == {o \in ObjIds : Referenced(map, rq, o)} IN
    [map |-> [k \in Keys |-> IF map[k] = 0 THEN 0 ELSE NewId(map, rq, map[k])],
     heap |-> [n \in ObjIds |->
                 IF \E o \in used : NewId(map, rq, o) = n
                 THEN h[CHOOSE o \in used : NewId(map, rq, o) = n]
                 ELSE FreeObj],
     reqs |-> [r \in DOMAIN rq |->
                 IF rq[r].pc = "await"
                 THEN [rq[r] EXCEPT !.obj = NewId(map, rq, rq[r].obj)]
                 ELSE rq[r]]]

\* the loadHars calls in progress are told apart by what they still have
\* to do, not by the slot that holds them: the slots are kept sorted
LoadRank(ld) ==
    (CASE ld.pc = "saved" -> 100 [] ld.pc = "resolve" -> 200
       [] ld.pc = "files" -> 300 [] OTHER -> 900)
    + 10 * Len(ld.todo) + (IF ld.todo = <<>> THEN 0 ELSE Head(ld.todo))

SortLoads(ld, rq) ==
    LET ids == DOMAIN ld
        perms == {p \in [ids -> ids] : \A a, b \in ids : a # b => p[a] # p[b]}
        pi == CHOOSE p \in perms :
                 \A a, b \in ids : a < b => LoadRank(ld[p[a]]) <= LoadRank(ld[p[b]])
    IN [loads |-> [a \in ids |-> ld[pi[a]]],
        reqs |-> [r \in DOMAIN rq |->
                    IF rq[r].watch = 0 THEN rq[r]
                    ELSE [rq[r] EXCEPT !.watch = CHOOSE a \in ids : pi[a] = rq[r].watch]]]

\* the next state of the index, the objects, the requests and the loads
Commit(map, h, rq, ld) ==
    \E g \in {Collect(map, h, rq)} :
      \E n \in {SortLoads(ld, g.reqs)} :
        /\ harDataMap' = g.map
        /\ heap' = g.heap
        /\ reqs' = n.reqs
        /\ loads' = n.loads

(***************************************************************************)
(* Index construction: _processSingleHarFile and loadHars.                 *)
(***************************************************************************)
\* the object a "new" expression yields: the lowest identity not in use
AllocObj(map) ==
    CHOOSE o \in ObjIds :
        /\ ~Referenced(map, reqs, o)
        /\ \A p \in ObjIds : ~Referenced(map, reqs, p) => o <= p

\* state.entries.push(entry); a window on the object starts afresh
PushEntry(st, id) ==
    [st EXCEPT !.entries = Append(@, id), !.base = st.currentIndex,
               !.fb = <<>>, !.nm = 0]

\* one valid entry is put into the index: its list is created when the
\* key is new, and the entry is appended
IndexEntry(entry, map, h) ==
    LET key == <<ToUpperCase(entry.method), entry.path>>
        isNew == map[key] = 0
        o == IF isNew THEN AllocObj(map) ELSE map[key]
        st == IF isNew THEN FreeObj ELSE h[o]
    IN [map |-> [map EXCEPT ![key] = o],
        heap |-> [h EXCEPT ![o] = PushEntry(st, entry.id)]]

RECURSIVE ProcessEntries(_, _, _)
\* the for loop of _processSingleHarFile over the entries of one document;
\* an entry without a method makes toUpperCase throw, which ends the loop
ProcessEntries(es, map, h) ==
    IF es = <<>> THEN [map |-> map, heap |-> h]
    ELSE LET entry == Head(es) IN
         IF ~entry.hasUrl \/ ~entry.hasResponse
         THEN ProcessEntries(Tail(es), map, h)
         ELSE IF ~entry.hasMethod THEN [map |-> map, heap |-> h]
         ELSE CHOOSE r \in {ProcessEntries(Tail(es), n.map, n.heap) :
                             n \in {IndexEntry(entry, map, h)}} : TRUE

\* the documents fs, one after the other, each as far as it exists
RECURSIVE ProcessFiles(_, _, _, _)
ProcessFiles(fs, d, map, h) ==
    IF fs = <<>> THEN [map |-> map, heap |-> h]
    ELSE IF Head(fs) \in d
    THEN CHOOSE r \in {ProcessFiles(Tail(fs), d, n.map, n.heap) :
                        n \in {ProcessEntries(ReadHar(Head(fs)), map, h)}} : TRUE
    ELSE ProcessFiles(Tail(fs), d, map, h)

\* loadHars without the clear (as in the first revision of the server)
LoadHarsNoClear(map, h) == [map |-> map, heap |-> h]

\* this.harDataMap.clear()
LoadHarsClear(map, h) == [map |-> [k \in Keys |-> 0], heap |-> h]

\* _resolveHarFilePaths: the sources of the command line, then the storage
\* directory
ResolveHarFilePaths ==
    (IF InitialFile \in disk THEN <<InitialFile>> ELSE <<>>)
       \o (IF ExtraFile \in disk THEN <<ExtraFile>> ELSE <<>>)
       \o (IF StorageFile \in disk THEN <<StorageFile>> ELSE <<>>)
       \o (IF BrokenFile \in disk THEN <<BrokenFile>> ELSE <<>>)


\* a request suspended in getRequestBody notes the reload that begins
NoteLoadStart(rq, l) ==
    [r \in DOMAIN rq |->
        IF rq[r].pc = "await" /\ rq[r].phase = 0
        THEN [rq[r] EXCEPT !.phase = 1, !.watch = l, !.pre = heap[rq[r].obj].entries]
        ELSE rq[r]]

\* ... and the end of that reload
NoteLoadEnd(rq, l) ==
    [r \in DOMAIN rq |->
        IF rq[r].pc = "await" /\ rq[r].phase = 1 /\ rq[r].watch = l
        THEN [rq[r] EXCEPT !.phase = 2]
        ELSE rq[r]]

LowestIdleLoad(l) ==
    /\ loads[l].pc = "idle"
    /\ \A m \in LoadIds : loads[m].pc = "idle" => l <= m

\* loadHars up to its first await: the map is cleared
StartLoad(l) ==
    LET c == LoadHarsClear(harDataMap, heap)
    IN /\ Commit(c.map, c.heap, NoteLoadStart(reqs, l),
                 [loads EXCEPT ![l] = [pc |-> "resolve", todo |-> <<>>]])
       /\ ev' = [NoEvent EXCEPT !.kind = "clear"]
       /\ UNCHANGED <<disk, loadedHarFiles, conv, call>>

\* POST /_manage/reload
ManageReload(l) ==
    /\ LowestIdleLoad(l)
    /\ StartLoad(l)

\* POST /_manage/upload: the uploaded document is renamed into the storage directory
UploadSave(l) ==
    /\ LowestIdleLoad(l)
    /\ StorageFile \notin disk
    /\ disk' = disk \cup {StorageFile}
    /\ Commit(harDataMap, heap, reqs, [loads EXCEPT ![l].pc = "saved"])
    /\ ev' = [NoEvent EXCEPT !.kind = "load"]
    /\ UNCHANGED <<loadedHarFiles, conv, call>>

\* POST /_manage/delete of a managed document: the file is unlinked
DeleteUnlink(l) ==
    /\ LowestIdleLoad(l)
    /\ \E i \in DOMAIN loadedHarFiles : loadedHarFiles[i] = StorageFile
    /\ StorageFile \in disk
    /\ disk' = disk \ {StorageFile}
    /\ Commit(harDataMap, heap, reqs, [loads EXCEPT ![l].pc = "saved"])
    /\ ev' = [NoEvent EXCEPT !.kind = "load"]
    /\ UNCHANGED <<loadedHarFiles, conv, call>>

\* upload and delete go on with _reloadAllHars
ReloadAfterChange(l) ==
    /\ loads[l].pc = "saved"
    /\ StartLoad(l)

\* loadHars after await _resolveHarFilePaths; with no document found the
\* loop has no turn and loadHars returns
LoadResolve(l) ==
    /\ loads[l].pc = "resolve"
    /\ loadedHarFiles' = ResolveHarFilePaths
    /\ IF ResolveHarFilePaths = <<>>
       THEN /\ Commit(harDataMap, heap, NoteLoadEnd(reqs, l),
                      [loads EXCEPT ![l] = IdleLoad])
            /\ ev' = [NoEvent EXCEPT !.kind = "loaded"]
       ELSE /\ Commit(harDataMap, heap, reqs,
                      [loads EXCEPT ![l] = [pc |-> "files", todo |-> ResolveHarFilePaths]])
            /\ ev' = [NoEvent EXCEPT !.kind = "load"]
    /\ UNCHANGED <<disk, conv, call>>

\* one turn of the loop of loadHars: readFile returns and the document is
\* processed; after the last document loadHars returns
LoadFile(l) ==
    /\ loads[l].pc = "files"
    /\ LET f == Head(loads[l].todo)
           rest == Tail(loads[l].todo)
           p == IF f \in disk
                THEN ProcessEntries(ReadHar(f), harDataMap, heap)
                ELSE [map |-> harDataMap, heap |-> heap]
       IN /\ Commit(p.map, p.heap,
                    IF rest = <<>> THEN NoteLoadEnd(reqs, l) ELSE reqs,
                    [loads EXCEPT ![l] =
                        IF rest = <<>> THEN IdleLoad ELSE [pc |-> "files", todo |-> rest]])
          /\ ev' = [NoEvent EXCEPT !.kind = IF rest = <<>> THEN "loaded" ELSE "load"]
    /\ UNCHANGED <<disk, loadedHarFiles, conv, call>>

(***************************************************************************)
(* _resetAllReplayCycles                                                   *)
(***************************************************************************)
InMap(map, o) == \E k \in Keys : map[k] = o

\* the test of the loop inverted: nothing is reset
ResetNothing(map, h) == h

ResetAllReplayCycles(map, h) ==
    [o \in ObjIds |->
        IF InMap(map, o) /\ h[o].currentIndex # 0
        THEN [h[o] EXCEPT !.currentIndex = 0, !.base = 0, !.fb = <<>>, !.nm = 0]
        ELSE h[o]]

\* POST /_manage/reset
ManageReset ==
    /\ heap' = ResetAllReplayCycles(harDataMap, heap)
    /\ ev' = [NoEvent EXCEPT !.kind = "reset",
                !.count = Cardinality({o \in ObjIds : InMap(harDataMap, o)
                                                      /\ heap[o].currentIndex # 0})]
    /\ UNCHANGED <<disk, loadedHarFiles, harDataMap, loads, reqs, conv, call>>

(***************************************************************************)
(* _replayRequest                                                          *)
(***************************************************************************)
\* the predicate of the method class on one candidate
\* both attributes compared, whatever the method
SatisfiesBoth(method, query, body, id) ==
    /\ compareBody(body, EntryOf[id].postData)
    /\ compareQueryParams(query, EntryOf[id].query)

Satisfies(method, query, body, id) ==
    IF method \in METHODS_WITH_BODY
    THEN compareBody(body, EntryOf[id].postData)
    ELSE compareQueryParams(query, EntryOf[id].query)

\* the requests and candidates of the model on which Satisfies is true
Satisfying ==
    {t \in Methods \X LiveQueries \X LiveBodies \X EntryIds :
        Satisfies(t[1], t[2], t[3], t[4])}

RECURSIVE PriorityMatchLast(_, _, _, _, _)
\* the loops without their break: the last satisfying candidate wins
PriorityMatchLast(entries, i, method, query, body) ==
    IF i > Len(entries) THEN 0
    ELSE LET later == PriorityMatchLast(entries, i + 1, method, query, body) IN
         IF later # 0 THEN later
         ELSE IF <<method, query, body, entries[i]>> \in Satisfying THEN i
         ELSE 0

RECURSIVE PriorityMatch(_, _, _, _, _)
\* the for loops with break: position of the first satisfying candidate
\* at or after i, 0 when there is none
PriorityMatch(entries, i, method, query, body) ==
    IF i > Len(entries) THEN 0
    ELSE IF <<method, query, body, entries[i]>> \in Satisfying THEN i
    ELSE PriorityMatch(entries, i + 1, method, query, body)

\* the window of an observed object after one more fallback serve
NoteFallback(st, id) ==
    IF ~st.obs THEN st
    ELSE IF Len(st.fb) < MaxWindow
    THEN [st EXCEPT !.fb = Append(@, id)]
    ELSE [st EXCEPT !.base = st.currentIndex, !.fb = <<id>>, !.nm = 0]

\* ... and after one more attribute-matched serve
NoteMatch(st) == IF st.obs THEN [st EXCEPT !.nm = 1] ELSE st

\* the cursor advanced without the modulo
AdvanceCursorNoWrap(st) == [st EXCEPT !.currentIndex = st.currentIndex + 1]

\* replayState.currentIndex = (currentIndex + 1) % entries.length
AdvanceCursor(st) ==
    [st EXCEPT !.currentIndex = (st.currentIndex + 1) % Len(st.entries)]

\* the cursor advanced on the match branch too
ServeMatchAdvancing(st) == AdvanceCursor(st)

\* an attribute-matched serve leaves the ReplayState as it is
ServeMatch(st) == st

\* the fallback entry counted from the end of the list
SelectFromEnd(st, method, query, body) ==
    LET m == PriorityMatch(st.entries, 1, method, query, body) IN
    IF m # 0
    THEN [how |-> "match", served |-> st.entries[m], state |-> NoteMatch(ServeMatch(st))]
    ELSE LET fallbackEntry == st.entries[Len(st.entries) - st.currentIndex]
         IN [how |-> "fallback", served |-> fallbackEntry,
             state |-> AdvanceCursor(NoteFallback(st, fallbackEntry))]

\* everything after the lookup and the body read: what is served from the
\* ReplayState st, and the ReplayState afterwards
Select(st, method, query, body) ==
    LET m == PriorityMatch(st.entries, 1, method, query, body) IN
    IF m # 0
    THEN [how |-> "match", served |-> st.entries[m], state |-> NoteMatch(ServeMatch(st))]
    ELSE LET fallbackEntry == st.entries[st.currentIndex + 1]
         IN [how |-> "fallback", served |-> fallbackEntry,
             state |-> AdvanceCursor(NoteFallback(st, fallbackEntry))]

\* this.harDataMap.get(method)?.get(urlPath), 0 when there is no usable list
Lookup(map, h, method, urlPath) ==
    IF <<method, urlPath>> \in Keys /\ map[<<method, urlPath>>] # 0
       /\ Len(h[map[<<method, urlPath>>]].entries) # 0
    THEN map[<<method, urlPath>>]
    ELSE 0

\* the missing list handed on to sendResponse, which answers 500
NotFoundAsFault(method, urlPath, query) ==
    /\ ev' = [NoEvent EXCEPT !.kind = "request", !.method = method, !.path = urlPath,
                             !.query = query, !.status = 500, !.how = "error"]
    /\ UNCHANGED <<heap, reqs>>

\* the answer when the lookup finds nothing: 404, nothing else happens
NotFound(method, urlPath, query) ==
    /\ ev' = [NoEvent EXCEPT !.kind = "request", !.method = method, !.path = urlPath,
                             !.query = query, !.status = 404, !.how = "notfound"]
    /\ UNCHANGED <<heap, reqs>>

\* a request of a method without body: lookup, match and fallback in one step
ReplayRequest(method, urlPath, query) ==
    /\ method \notin METHODS_WITH_BODY
    /\ LET o == Lookup(harDataMap, heap, method, urlPath) IN
       IF o = 0
       THEN NotFound(method, urlPath, query)
       ELSE LET s == Select(heap[o], method, query, <<>>) IN
            /\ heap' = [heap EXCEPT ![o] = s.state]
            /\ ev' = [NoEvent EXCEPT !.kind = "request", !.method = method,
                        !.path = urlPath, !.query = query, !.status = 200,
                        !.how = s.how, !.served = s.served,
                        !.list = heap[o].entries, !.cursor = heap[o].currentIndex]
            /\ UNCHANGED reqs
    /\ UNCHANGED <<disk, loadedHarFiles, harDataMap, loads, conv, call>>

LowestIdleSlot(r) ==
    /\ reqs[r].pc = "idle"
    /\ \A q \in Slots : reqs[q].pc = "idle" => r <= q

\* the request takes a copy of the ReplayState it finds and works on the copy
ReplayArriveSnapshot(r, method, urlPath) ==
    /\ method \in METHODS_WITH_BODY
    /\ LowestIdleSlot(r)
    /\ LET o == Lookup(harDataMap, heap, method, urlPath) IN
       IF o = 0
       THEN NotFound(method, urlPath, <<>>)
       ELSE /\ reqs' = [reqs EXCEPT ![r] = [IdleReq EXCEPT !.pc = "await",
                           !.method = method, !.path = urlPath,
                           !.obj = AllocObj(harDataMap),
                           !.rank = 1 + Cardinality({q \in Slots : reqs[q].pc = "await"})]]
            /\ ev' = [NoEvent EXCEPT !.kind = "request", !.method = method,
                        !.path = urlPath, !.how = "await",
                        !.list = heap[o].entries, !.cursor = heap[o].currentIndex]
            /\ heap' = [heap EXCEPT ![AllocObj(harDataMap)] = heap[o]]
    /\ UNCHANGED <<disk, loadedHarFiles, harDataMap, loads, conv, call>>

\* a request of a method with body: the lookup, then await getRequestBody
ReplayArrive(r, method, urlPath) ==
    /\ method \in METHODS_WITH_BODY
    /\ LowestIdleSlot(r)
    /\ LET o == Lookup(harDataMap, heap, method, urlPath) IN
       IF o = 0
       THEN NotFound(method, urlPath, <<>>)
       ELSE /\ reqs' = [reqs EXCEPT ![r] = [IdleReq EXCEPT !.pc = "await",
                           !.method = method, !.path = urlPath, !.obj = o,
                           !.rank = 1 + Cardinality({q \in Slots : reqs[q].pc = "await"})]]
            /\ ev' = [NoEvent EXCEPT !.kind = "request", !.method = method,
                        !.path = urlPath, !.how = "await",
                        !.list = heap[o].entries, !.cursor = heap[o].currentIndex]
            /\ UNCHANGED heap
    /\ UNCHANGED <<disk, loadedHarFiles, harDataMap, loads, conv, call>>

BodyEvent(r) ==
    [NoEvent EXCEPT !.kind = "body", !.method = reqs[r].method, !.path = reqs[r].path,
                    !.list = heap[reqs[r].obj].entries,
                    !.cursor = heap[reqs[r].obj].currentIndex,
                    !.phase = reqs[r].phase, !.pre = reqs[r].pre, !.rank = reqs[r].rank]

\* the request is over: its slot is free, what only it held is collected
Finish(r, h) ==
    Commit(harDataMap, h,
           [q \in Slots |-> IF q = r THEN IdleReq
                            ELSE IF reqs[q].rank > reqs[r].rank
                            THEN [reqs[q] EXCEPT !.rank = @ - 1]
                            ELSE reqs[q]],
           loads)

\* the 'end' event serving by arrival: each suspended request is held the
\* cycle position that follows those of the requests that arrived before it
BodyEndTicket(r, body) ==
    /\ reqs[r].pc = "await"
    /\ LET o == reqs[r].obj
           s == Select([heap[o] EXCEPT !.currentIndex =
                           (@ + reqs[r].rank - 1) % Len(heap[o].entries)],
                       reqs[r].method, <<>>, body)
       IN /\ Finish(r, [heap EXCEPT ![o] = s.state])
          /\ ev' = [BodyEvent(r) EXCEPT !.body = body, !.status = 200, !.how = s.how,
                                        !.served = s.served, !.bodyRead = TRUE]
    /\ UNCHANGED <<disk, loadedHarFiles, conv, call>>

\* the lookup made again after the await: the request is served from the
\* list the live index holds when its body is complete
BodyEndLookup(r, body) ==
    /\ reqs[r].pc = "await"
    /\ LET live == Lookup(harDataMap, heap, reqs[r].method, reqs[r].path)
           o == IF live # 0 THEN live ELSE reqs[r].obj
           s == Select(heap[o], reqs[r].method, <<>>, body)
       IN /\ Finish(r, [heap EXCEPT ![o] = s.state])
          /\ ev' = [BodyEvent(r) EXCEPT !.body = body, !.status = 200, !.how = s.how,
                                        !.served = s.served, !.bodyRead = TRUE]
    /\ UNCHANGED <<disk, loadedHarFiles, conv, call>>

\* the 'end' event: the body is complete, the match and the fallback run
BodyEnd(r, body) ==
    /\ reqs[r].pc = "await"
    /\ LET o == reqs[r].obj
           s == Select(heap[o], reqs[r].method, <<>>, body)
       IN /\ Finish(r, [heap EXCEPT ![o] = s.state])
          /\ ev' = [BodyEvent(r) EXCEPT !.body = body, !.status = 200, !.how = s.how,
                                        !.served = s.served, !.bodyRead = TRUE]
    /\ UNCHANGED <<disk, loadedHarFiles, conv, call>>

\* getRequestBody resolving with what has arrived when the stream errors
BodyErrorResolves(r) == BodyEnd(r, <<>>)

\* the 'error' event: getRequestBody rejects, the catch block answers 500
BodyError(r) ==
    /\ reqs[r].pc = "await"
    /\ Finish(r, heap)
    /\ ev' = [BodyEvent(r) EXCEPT !.status = 500, !.how = "error"]
    /\ UNCHANGED <<disk, loadedHarFiles, conv, call>>

\* the connection closes with neither 'end' nor 'error': the promise of
\* getRequestBody never settles and the handler never resumes
BodyClose(r) ==
    /\ reqs[r].pc = "await"
    /\ Finish(r, heap)
    /\ ev' = [BodyEvent(r) EXCEPT !.how = "closed"]
    /\ UNCHANGED <<disk, loadedHarFiles, conv, call>>

(***************************************************************************)
(* The server: start() has loaded the documents on disk and listens.       *)
(***************************************************************************)

\* the index loadHars builds from the documents on disk, with no request
\* and no other load under way
Started(d, observed) ==
    LET noreq == [r \in {} |-> IdleReq]
        p == ProcessFiles(<<InitialFile, ExtraFile, StorageFile, BrokenFile>>, d,
                          [k \in Keys |-> 0], [o \in ObjIds |-> FreeObj])
        g == Collect(p.map, p.heap, noreq)
    IN [map |-> g.map,
        heap |-> [o \in ObjIds |-> IF g.heap[o].entries # <<>>
                                   THEN [g.heap[o] EXCEPT !.obs = observed]
                                   ELSE g.heap[o]]]

InitServer(others, nreq, nload, observed) ==
    /\ disk \in {d \cup {InitialFile} : d \in SUBSET others}
    /\ loadedHarFiles = ResolveHarFilePaths
    /\ reqs = [r \in 1..nreq |-> IdleReq]
    /\ loads = [l \in 1..nload |-> IdleLoad]
    /\ \E g \in {Started(disk, observed)} : harDataMap = g.map /\ heap = g.heap
    /\ ev = NoEvent

Replay ==
    \/ \E m \in Methods, p \in LivePaths, q \in LiveQueries : ReplayRequest(m, p, q)
    \/ \E r \in Slots, m \in Methods, p \in LivePaths : ReplayArrive(r, m, p)
    \/ \E r \in Slots, b \in LiveBodies : BodyEnd(r, b)
    \/ \E r \in Slots : BodyError(r)
    \/ \E r \in Slots : BodyClose(r)

\* the whole server
Init == InitServer({StorageFile}, MaxPending, MaxLoads, FALSE) /\ conv = NoConversion /\ call = NoCall

Next ==
    \/ \E l \in LoadIds : ManageReload(l)
    \/ \E l \in LoadIds : UploadSave(l)
    \/ \E l \in LoadIds : DeleteUnlink(l)
    \/ \E l \in LoadIds : ReloadAfterChange(l)
    \/ \E l \in LoadIds : LoadResolve(l)
    \/ \E l \in LoadIds : LoadFile(l)
    \/ ManageReset
    \/ Replay

Spec == Init /\ [][Next]_vars

\* the server between two reloads: requests and resets on a loaded index,
\* every ReplayState observed
InitReplay ==
    InitServer({StorageFile, ExtraFile}, MaxInflight, 0, TRUE) /\ conv = NoConversion /\ call = NoCall

NextReplay ==
    \/ ManageReset
    \/ Replay

SpecReplay == InitReplay /\ [][NextReplay]_vars

\* the server started where the sources and the storage directory hold no
\* initial document: nothing at all, or documents of the storage directory
InitBare ==
    /\ disk \in SUBSET {StorageFile, BrokenFile}
    /\ loadedHarFiles = ResolveHarFilePaths
    /\ reqs = [r \in 1..MaxPending |-> IdleReq]
    /\ loads = [l \in 1..MaxLoads |-> IdleLoad]
    /\ \E g \in {Started(disk, FALSE)} : harDataMap = g.map /\ heap = g.heap
    /\ ev = NoEvent
    /\ conv = NoConversion
    /\ call = NoCall

SpecBare == InitBare /\ [][Next]_vars

\* the management requests alone: reloads, uploads and deletes that overlap
InitReloads ==
    InitServer({StorageFile}, 0, MaxReloads, FALSE) /\ conv = NoConversion /\ call = NoCall

NextReloads ==
    \/ \E l \in LoadIds : ManageReload(l)
    \/ \E l \in LoadIds : UploadSave(l)
    \/ \E l \in LoadIds : DeleteUnlink(l)
    \/ \E l \in LoadIds : ReloadAfterChange(l)
    \/ \E l \in LoadIds : LoadResolve(l)
    \/ \E l \in LoadIds : LoadFile(l)

SpecReloads == InitReloads /\ [][NextReloads]_vars

\* the whole server with a second document among the sources, so that
\* lists of several entries exist before the last document is read
InitSources ==
    InitServer({StorageFile, ExtraFile}, MaxPending, MaxLoads, FALSE)
       /\ conv = NoConversion /\ call = NoCall

SpecSources == InitSources /\ [][Next]_vars

(***************************************************************************)
(* _handleUpload of the server that takes capture bundles too.  The        *)
(* handler is the callback of form.parse; call holds its position, what    *)
(* was uploaded, how the file operations end, and the response object.     *)
(***************************************************************************)
\* a ServerResponse nothing was written to; heads counts the heads written,
\* late is set by a writeHead that finds the response ended, threw by a
\* writeHead that finds the head sent (ERR_HTTP_HEADERS_SENT)
NoResponse ==
    [headersSent |-> FALSE, finished |-> FALSE, statusCode |-> 0, heads |-> 0,
     late |-> FALSE, threw |-> FALSE]

\* res.writeHead(status)
WriteHead(res, status) ==
    IF res.headersSent
    THEN [res EXCEPT !.threw = TRUE, !.late = res.finished]
    ELSE [res EXCEPT !.headersSent = TRUE, !.statusCode = status, !.heads = @ + 1]

\* res.writeHead(status).end(...): end is not reached when writeHead throws
WriteHeadEnd(res, status) ==
    LET h == WriteHead(res, status) IN
    IF h.threw THEN h ELSE [h EXCEPT !.finished = TRUE]

\* the calls of convertSazToHar the handler makes at most for one upload
ConvertAttempts == 2

\* what the form held: no file, an empty file, or a file of some extension
Uploads == {"none", "empty", ".har", ".saz", ".txt"}

\* form.parse calls back: a parse error and a missing or empty file are
\* answered at once, anything else enters the try block
UploadCallback ==
    /\ call.fn = "_handleUpload" /\ call.pc = "parse"
    /\ call' = IF call.err
               THEN [call EXCEPT !.pc = "done", !.res = WriteHeadEnd(@, 500)]
               ELSE IF call.file \in {"none", "empty"}
               THEN [call EXCEPT !.pc = "done", !.res = WriteHeadEnd(@, 400)]
               ELSE [call EXCEPT !.pc = "try"]
    /\ UNCHANGED <<serverVars, conv>>

\* the try block up to its first await that can fail: the rename into the
\* storage directory; a file of another type is answered 400 and the
\* handler returns from inside the try block, which runs the finally block
UploadTry ==
    /\ call.fn = "_handleUpload" /\ call.pc = "try"
    /\ IF call.file = ".txt"
       THEN /\ call' = [call EXCEPT !.pc = "finally", !.res = WriteHeadEnd(@, 400)]
            /\ UNCHANGED serverVars
       ELSE IF ~call.renameOk
       THEN /\ call' = [call EXCEPT !.pc = "catch"]
            /\ UNCHANGED serverVars
       ELSE IF call.file = ".saz"
       THEN /\ call' = [call EXCEPT !.pc = "convert"]
            /\ UNCHANGED serverVars
       ELSE /\ call' = [call EXCEPT !.pc = "reload"]
            /\ disk' = disk \cup {StorageFile}
            /\ ev' = [NoEvent EXCEPT !.kind = "load"]
            /\ UNCHANGED <<loadedHarFiles, harDataMap, heap, loads, reqs>>
    /\ UNCHANGED conv

\* await convertSazToHar, and once more in the catch block of the first
\* attempt; when the second attempt fails too the error is thrown on
UploadConvert ==
    /\ call.fn = "_handleUpload" /\ call.pc = "convert"
    /\ IF Head(call.convertOk)
       THEN /\ call' = [call EXCEPT !.pc = "reload"]
            /\ disk' = disk \cup {StorageFile}
            /\ ev' = [NoEvent EXCEPT !.kind = "load"]
            /\ UNCHANGED <<loadedHarFiles, harDataMap, heap, loads, reqs>>
       ELSE /\ call' = [call EXCEPT !.convertOk = Tail(@),
                                    !.pc = IF Len(call.convertOk) = 1
                                           THEN "catch" ELSE "convert"]
            /\ UNCHANGED serverVars
    /\ UNCHANGED conv

\* await this._reloadAllHars(): loadHars starts
UploadReload(l) ==
    /\ call.fn = "_handleUpload" /\ call.pc = "reload"
    /\ ev.kind = "load" /\ LowestIdleLoad(l)
    /\ StartLoad(l)

\* the outer catch block: the handler answers 500 and returns, which runs
\* the finally block
UploadCatch ==
    /\ call.fn = "_handleUpload" /\ call.pc = "catch"
    /\ call' = [call EXCEPT !.pc = "finally", !.res = WriteHeadEnd(@, 500)]
    /\ UNCHANGED <<serverVars, conv>>

\* the finally block: res.writeHead(302, ...); res.end().  It runs when
\* the reload has returned, after the return of the try block and after
\* the catch block
UploadFinally ==
    /\ call.fn = "_handleUpload"
    /\ \/ call.pc = "finally"
       \/ call.pc = "reload" /\ ev.kind = "loaded"
    /\ call' = [call EXCEPT !.pc = "done", !.res = WriteHeadEnd(@, 302)]
    /\ UNCHANGED <<serverVars, conv>>

InitUpload ==
    /\ InitServer({}, 0, MaxLoads, FALSE)
    /\ conv = NoConversion
    /\ \E err \in BOOLEAN, file \in Uploads, renameOk \in BOOLEAN,
          convertOk \in [1..ConvertAttempts -> BOOLEAN] :
          call = [pc |-> "parse", fn |-> "_handleUpload", err |-> err, file |-> file,
                  renameOk |-> renameOk, convertOk |-> convertOk, res |-> NoResponse]

NextUpload ==
    \/ UploadCallback
    \/ UploadTry
    \/ UploadConvert
    \/ \E l \in LoadIds : UploadReload(l)
    \/ \E l \in LoadIds : LoadResolve(l)
    \/ \E l \in LoadIds : LoadFile(l)
    \/ UploadCatch
    \/ UploadFinally

SpecUpload == InitUpload /\ [][NextUpload]_vars

(***************************************************************************)
(* saz-converter.ts.  A blob is a sequence of tokens: a token is one byte  *)
(* (a delimiter, a digit, a letter the code looks at) or a run of bytes    *)
(* the code never looks into (a word such as "HTTP/1.1").                  *)
(***************************************************************************)
\* files a capture bundle holds at most
MaxFiles == 4

\* what String.prototype.trim removes
Whitespace == {" ", "\t", "\r", "\n", "\f"}

RECURSIVE TrimStart(_)
TrimStart(s) == IF s # <<>> /\ Head(s) \in Whitespace THEN TrimStart(Tail(s)) ELSE s

RECURSIVE TrimEnd(_)
TrimEnd(s) ==
    IF s # <<>> /\ s[Len(s)] \in Whitespace THEN TrimEnd(SubSeq(s, 1, Len(s) - 1)) ELSE s

Trim(s) == TrimEnd(TrimStart(s))

DigitToks == <<"0", "1", "2", "3", "4", "5", "6", "7", "8", "9">>
DigitValue(t) == (CHOOSE d \in DOMAIN DigitToks : DigitToks[d] = t) - 1

RECURSIVE DigitRun(_, _)
\* the last position of the run of digits that starts at i, i - 1 when s[i] is no digit
DigitRun(s, i) == IF i <= Len(s) /\ (\E d \in DOMAIN DigitToks : DigitToks[d] = s[i]) THEN DigitRun(s, i + 1) ELSE i - 1

RECURSIVE DecimalValue(_, _)
DecimalValue(s, acc) ==
    IF s = <<>> THEN acc ELSE DecimalValue(Tail(s), 10 * acc + DigitValue(Head(s)))

NaN == [nan |-> TRUE, value |-> 0]

\* parseInt(s): white space skipped, an optional sign, then the longest run
\* of digits; whatever follows the run is ignored; NaN when there is no digit
ParseInt(s) ==
    LET t == TrimStart(s)
        neg == t # <<>> /\ Head(t) = "-"
        u == IF t # <<>> /\ Head(t) \in {"-", "+"} THEN Tail(t) ELSE t
        e == DigitRun(u, 1)
    IN IF e = 0 THEN NaN
       ELSE [nan |-> FALSE,
             value |-> (IF neg THEN -1 ELSE 1) * DecimalValue(SubSeq(u, 1, e), 0)]

RECURSIVE IndexOfSeq(_, _, _)
\* buffer.indexOf(pat) from position i, 0 when absent
IndexOfSeq(s, pat, i) ==
    IF i + Len(pat) - 1 > Len(s) THEN 0
    ELSE IF SubSeq(s, i, i + Len(pat) - 1) = pat THEN i
    ELSE IndexOfSeq(s, pat, i + 1)

\* the file content decoded as UTF-8: a byte that is no UTF-8 becomes U+FFFD
Latin1DecodeAsUtf8(bytes) == [i \in DOMAIN bytes |-> IF bytes[i] = "E9" THEN "FFFD" ELSE bytes[i]]

\* content.toString('binary') and Buffer.from(text, 'binary'): byte b is the
\* character of code b, and back; "E9" is the byte 0xE9, "e'" the letter it encodes
Latin1Decode(bytes) == [i \in DOMAIN bytes |-> IF bytes[i] = "E9" THEN "e'" ELSE bytes[i]]
Latin1Encode(text) == [i \in DOMAIN text |-> IF text[i] = "e'" THEN "E9" ELSE text[i]]

\* buffer.toString('utf-8'): a byte that is no UTF-8 sequence decodes to U+FFFD
Utf8Decode(bytes) == [i \in DOMAIN bytes |-> IF bytes[i] = "E9" THEN "FFFD" ELSE bytes[i]]

\* the header block and the body of a message: split at the first CRLFCRLF,
\* or at the first LFLF when there is no CRLFCRLF
SplitHeadersBody(buffer) ==
    LET headerEndIndex == IndexOfSeq(buffer, <<"\r", "\n", "\r", "\n">>, 1)
        headerEndIndexLF ==
            IF headerEndIndex = 0 THEN IndexOfSeq(buffer, <<"\n", "\n">>, 1) ELSE 0
        actualHeaderEndIndex ==
            IF headerEndIndex # 0 THEN headerEndIndex ELSE headerEndIndexLF
    IN IF actualHeaderEndIndex # 0
       THEN [headers |-> SubSeq(buffer, 1, actualHeaderEndIndex - 1),
             body |-> SubSeq(buffer,
                             actualHeaderEndIndex + (IF headerEndIndex # 0 THEN 4 ELSE 2),
                             Len(buffer))]
       ELSE [headers |-> buffer, body |-> <<>>]

RECURSIVE LineEnd(_, _)
\* the first line break of s at or after i: its position and its length
LineEnd(s, i) ==
    IF i > Len(s) THEN [at |-> 0, len |-> 0]
    ELSE IF s[i] = "\r" /\ i < Len(s) /\ s[i + 1] = "\n" THEN [at |-> i, len |-> 2]
    ELSE IF s[i] = "\n" THEN [at |-> i, len |-> 1]
    ELSE LineEnd(s, i + 1)

RECURSIVE SplitLines(_)
\* headersString.split(/\r\n|\n/)
SplitLines(s) ==
    LET e == LineEnd(s, 1) IN
    IF e.at = 0 THEN <<s>>
    ELSE <<SubSeq(s, 1, e.at - 1)>> \o SplitLines(SubSeq(s, e.at + e.len, Len(s)))

\* toLowerCase on the header names of the model
ToLowerCase(name) ==
    [i \in DOMAIN name |->
        CASE name[i] = "Content-Type" -> "content-type"
          [] name[i] = "Content-Length" -> "content-length"
          [] name[i] = "Content-Encoding" -> "content-encoding"
          [] name[i] = "Transfer-Encoding" -> "transfer-encoding"
          [] name[i] = "CONNECTION" -> "connection"
          [] name[i] = "Set-Cookie" -> "set-cookie"
          [] OTHER -> name[i]]

RECURSIVE ParseHeaders(_, _)
\* the header lines up to the first empty one; a line counts when it has a
\* colon that is not its first character
ParseHeaders(lines, acc) ==
    IF lines = <<>> \/ Head(lines) = <<>> THEN acc
    ELSE LET line == Head(lines)
             colonIndex == IndexOfTok(line, ":", 1)
         IN IF colonIndex > 1
            THEN ParseHeaders(Tail(lines),
                    Append(acc, [name |-> Trim(SubSeq(line, 1, colonIndex - 1)),
                                 value |-> Trim(SubSeq(line, colonIndex + 1, Len(line)))]))
            ELSE ParseHeaders(Tail(lines), acc)

\* headers.find(h => h.name.toLowerCase() === name): its position, 0 when absent
FindHeader(headers, name) ==
    IF \E i \in DOMAIN headers : ToLowerCase(headers[i].name) = <<name>>
    THEN Min({i \in DOMAIN headers : ToLowerCase(headers[i].name) = <<name>>})
    ELSE 0

\* contentTypeHeader ? contentTypeHeader.value.split(';')[0].trim() : 'text/plain'
MimeTypeOf(headers) ==
    LET i == FindHeader(headers, "content-type") IN
    IF i = 0 THEN <<"text/plain">> ELSE Trim(SplitTok(headers[i].value, ";")[1])

\* the prefixes of the MIME words of the model that occur in the lists of the code
MimePrefixes(word) ==
    CASE word = "text/plain" -> {"text/"}
      [] word = "image/png" -> {"image/"}
      [] word = "application/json" -> {"application/json"}
      [] word = "application/octet-stream" -> {"application/octet-stream"}
      [] word = "application/rss+xml" -> {"application/rss+xml"}
      [] OTHER -> {}

\* types.some(type => mimeType.startsWith(type))
StartsWithSome(mimeType, types) ==
    mimeType # <<>> /\ MimePrefixes(mimeType[1]) \cap types # {}

\* byte <= 0x08 || (byte >= 0x0B && byte <= 0x1F) || byte === 0x7F
HasControlByte(body) == \E i \in DOMAIN body : (body[i] \in {"00", "\f", "\r"})

HexToks == <<"0", "1", "2", "3", "4", "5", "6", "7", "8", "9",
             "A", "B", "C", "D", "E", "F", "a", "b", "c", "d", "e", "f">>
HexValue(t) ==
    LET d == CHOOSE d \in DOMAIN HexToks : HexToks[d] = t
    IN IF d > 16 THEN d - 7 ELSE d - 1

\* the character of an escaped ASCII code, for the escapes of the model
AsciiChar(code) ==
    CASE code = 37 -> "%" [] code = 38 -> "&" [] code = 61 -> "="
      [] code = 65 -> "A" [] code = 66 -> "B" [] OTHER -> "?"

RECURSIVE DecodeEscapes(_, _)
\* decodeURIComponent(s): a "%" must come with two hex digits that make a
\* complete UTF-8 sequence, or URIError is thrown (ok = FALSE)
DecodeEscapes(s, acc) ==
    IF s = <<>> THEN [ok |-> TRUE, text |-> acc]
    ELSE IF Head(s) # "%" THEN DecodeEscapes(Tail(s), Append(acc, Head(s)))
    ELSE IF Len(s) >= 3 /\ (\E d \in DOMAIN HexToks : HexToks[d] = s[2]) /\ (\E d \in DOMAIN HexToks : HexToks[d] = s[3])
            /\ 16 * HexValue(s[2]) + HexValue(s[3]) < 128
         THEN DecodeEscapes(SubSeq(s, 4, Len(s)),
                            Append(acc, AsciiChar(16 * HexValue(s[2]) + HexValue(s[3]))))
         ELSE [ok |-> FALSE, text |-> <<>>]

decodeURIComponent(s) == DecodeEscapes(s, <<>>)

RECURSIVE DecodeParams(_, _)
\* the loop over bodyString.split('&'): [key, value] = pair.split('=')
DecodeParams(pairs, acc) ==
    IF pairs = <<>> THEN [ok |-> TRUE, params |-> acc]
    ELSE LET kv == SplitTok(Head(pairs), "=")
             name == decodeURIComponent(kv[1])
             value == decodeURIComponent(IF Len(kv) >= 2 THEN kv[2] ELSE <<>>)
         IN IF name.ok /\ value.ok
            THEN DecodeParams(Tail(pairs),
                              Append(acc, [name |-> name.text, value |-> value.text]))
            ELSE [ok |-> FALSE, params |-> <<>>]

\* the outcomes of a parser: null, a thrown exception, a record
ParseNull == [kind |-> "null"]

\* postData of a request; encoding "" is the absent tag; bytes is the
\* bodyBuffer that text is made of with toString('base64') or toString('utf-8')
NoSazPostData ==
    [present |-> FALSE, mimeType |-> <<>>, params |-> <<>>, encoding |-> "", bytes |-> <<>>]

RequestTextMimeTypes ==
    {"text/", "application/json", "application/javascript", "application/xml",
     "application/xhtml+xml"}

\* the postData block of parseHttpRequest
RequestPostData(headers, bodyBuffer) ==
    IF bodyBuffer = <<>> THEN [ok |-> TRUE, postData |-> NoSazPostData]
    ELSE LET mimeType == MimeTypeOf(headers) IN
         IF mimeType = <<"application/x-www-form-urlencoded">>
         THEN LET d == DecodeParams(SplitTok(Utf8Decode(bodyBuffer), "&"), <<>>) IN
              [ok |-> d.ok,
               postData |-> [NoSazPostData EXCEPT !.present = TRUE, !.mimeType = mimeType,
                                                  !.params = d.params]]
         ELSE LET isTextContent == StartsWithSome(mimeType, RequestTextMimeTypes)
                  isBinary == HasControlByte(bodyBuffer)
              IN [ok |-> TRUE,
                  postData |->
                     [NoSazPostData EXCEPT
                        !.present = TRUE, !.mimeType = mimeType, !.bytes = bodyBuffer,
                        !.encoding =
                           IF StartsWithSome(mimeType, {"image/"}) \/ isBinary
                              \/ (~isTextContent /\ Len(bodyBuffer) > 0)
                           THEN "base64" ELSE ""]]

parseHttpRequest(requestContent) ==
    IF requestContent = <<>> THEN ParseNull
    ELSE LET hb == SplitHeadersBody(Latin1Encode(requestContent))
             lines == SplitLines(Utf8Decode(hb.headers))
             parts == SplitTok(Trim(lines[1]), " ")
         IN IF Len(parts) < 2 \/ parts[1] = <<>> \/ parts[2] = <<>> THEN ParseNull
            ELSE LET headers == ParseHeaders(Tail(lines), <<>>)
                     pd == RequestPostData(headers, hb.body)
                 IN IF ~pd.ok THEN [kind |-> "throw"]
                    ELSE [kind |-> "record", method |-> parts[1], url |-> parts[2],
                          headers |-> headers, postData |-> pd.postData]

ResponseBinaryMimeTypes ==
    {"image/", "application/octet-stream", "application/pdf", "application/zip",
     "application/x-zip-compressed", "application/vnd.openxmlformats-officedocument",
     "application/msword", "application/vnd.ms-excel", "application/vnd.ms-powerpoint"}

\* the list of parseHttpRequest used for the responses too
ResponseTextMimeTypesOfRequest == RequestTextMimeTypes

ResponseTextMimeTypes ==
    {"text/", "application/json", "application/javascript", "application/xml",
     "application/xhtml+xml", "application/rss+xml", "application/atom+xml"}

RECURSIVE JoinTok(_, _)
\* pieces.join(t)
JoinTok(pieces, t) ==
    IF pieces = <<>> THEN <<>>
    ELSE IF Len(pieces) = 1 THEN pieces[1]
    ELSE pieces[1] \o <<t>> \o JoinTok(Tail(pieces), t)

\* contentLength of the last Content-Length header: parseInt(value) || 0
ContentLengthOf(headers) ==
    LET is == {i \in DOMAIN headers : ToLowerCase(headers[i].name) = <<"content-length">>}
    IN IF is = {} THEN 0
       ELSE LET n == ParseInt(headers[CHOOSE i \in is : \A j \in is : j <= i].value)
            IN IF n.nan THEN 0 ELSE n.value

parseHttpResponse(responseContent) ==
    IF responseContent = <<>> THEN ParseNull
    ELSE LET hb == SplitHeadersBody(Latin1Encode(responseContent))
             lines == SplitLines(Utf8Decode(hb.headers))
             parts == SplitTok(Trim(lines[1]), " ")
             status == IF Len(parts) >= 2 THEN ParseInt(parts[2]) ELSE NaN
         IN IF status.nan THEN ParseNull
            ELSE LET headers == ParseHeaders(Tail(lines), <<>>)
                     contentLength == ContentLengthOf(headers)
                     mimeType == MimeTypeOf(headers)
                     isBinaryContent == StartsWithSome(mimeType, ResponseBinaryMimeTypes)
                     isTextContent == StartsWithSome(mimeType, ResponseTextMimeTypes)
                 IN [kind |-> "record", status |-> status.value,
                     statusText |-> JoinTok(SubSeq(parts, 3, Len(parts)), " "),
                     headers |-> headers,
                     content |->
                        [mimeType |-> mimeType,
                         size |-> IF contentLength # 0 THEN contentLength ELSE Len(hb.body),
                         bytes |-> hb.body,
                         encoding |->
                            IF StartsWithSome(mimeType, {"image/"}) \/ isBinaryContent
                               \/ (~isTextContent /\ HasControlByte(hb.body))
                            THEN "base64" ELSE ""]]

RECURSIVE FilenameMatch(_, _)
\* filename.match(/(\d+)_(s|c|m|w)/): the leftmost run of digits that an
\* underscore and one of the four letters follow, tried from position i
FilenameMatch(name, i) ==
    IF i > Len(name) THEN [matched |-> FALSE, digits |-> <<>>, letter |-> ""]
    ELSE LET e == DigitRun(name, i) IN
         IF e >= i /\ e + 2 <= Len(name) /\ name[e + 1] = "_"
            /\ name[e + 2] \in {"s", "c", "m", "w"}
         THEN [matched |-> TRUE, digits |-> SubSeq(name, i, e), letter |-> name[e + 2]]
         ELSE FilenameMatch(name, i + 1)

\* parseSazFile: null (parsed = FALSE) for a name that does not match
parseSazFile(filename, content) ==
    LET filenameMatches == FilenameMatch(filename, 1) IN
    IF ~filenameMatches.matched
    THEN [parsed |-> FALSE, position |-> 0, type |-> "", raw |-> <<>>]
    ELSE [parsed |-> TRUE,
          position |-> ParseInt(filenameMatches.digits).value,
          type |-> CASE filenameMatches.letter = "c" -> "request"
                     [] filenameMatches.letter = "s" -> "response"
                     [] filenameMatches.letter = "m" -> "metadata"
                     [] OTHER -> "websocket",
          raw |-> Latin1Decode(content)]

RECURSIVE InsertByPosition(_, _)
\* d put behind every element whose position is not greater: the sort is stable
InsertByPosition(sorted, d) ==
    IF sorted = <<>> THEN <<d>>
    ELSE IF Head(sorted).position <= d.position
         THEN <<Head(sorted)>> \o InsertByPosition(Tail(sorted), d)
         ELSE <<d>> \o sorted

RECURSIVE SortByPosition(_, _)
\* sazData.sort((a, b) => a.position - b.position)
SortByPosition(sazData, acc) ==
    IF sazData = <<>> THEN acc
    ELSE SortByPosition(Tail(sazData), InsertByPosition(acc, Head(sazData)))

RECURSIVE MergedRaw(_, _, _, _)
\* mergedData[position][type] after the merge loop: the raw text of the
\* last element of that position and type whose text is truthy (not
\* empty); <<>> stands for null
MergedRaw(sazData, position, type, acc) ==
    IF sazData = <<>> THEN acc
    ELSE LET d == Head(sazData) IN
         MergedRaw(Tail(sazData), position, type,
                   IF d.position = position /\ d.type = type /\ d.raw # <<>>
                   THEN d.raw ELSE acc)

RECURSIVE KeysDescending(_)
\* the keys from the greatest to the least
KeysDescending(S) ==
    IF S = {} THEN <<>>
    ELSE LET greatest == CHOOSE x \in S : \A y \in S : y <= x
         IN <<greatest>> \o KeysDescending(S \ {greatest})

RECURSIVE Ascending(_)
\* the keys of mergedData in the order of for..in: ascending integers
Ascending(S) ==
    IF S = {} THEN <<>> ELSE <<Min(S)>> \o Ascending(S \ {Min(S)})

\* one turn of the loop over mergedData: the entry of a position, if any
ConvertItem(sorted, position) ==
    LET request == parseHttpRequest(MergedRaw(sorted, position, "request", <<>>)) IN
    IF request.kind = "throw" THEN [kind |-> "throw"]
    ELSE LET response == parseHttpResponse(MergedRaw(sorted, position, "response", <<>>))
         IN IF request.kind = "record" /\ response.kind = "record"
            THEN [kind |-> "entry",
                  entry |-> [position |-> position, request |-> request,
                             response |-> response]]
            ELSE [kind |-> "none"]

RECURSIVE ConvertItems(_, _, _)
ConvertItems(sorted, positions, entries) ==
    IF positions = <<>> THEN [kind |-> "har", entries |-> entries]
    ELSE LET item == CHOOSE r \in {ConvertItem(sorted, Head(positions))} : TRUE IN
         IF item.kind = "throw" THEN [kind |-> "throw", entries |-> <<>>]
         ELSE ConvertItems(sorted, Tail(positions),
                           IF item.kind = "entry" THEN Append(entries, item.entry)
                           ELSE entries)

\* convertSazDataToHar: the entries of the HAR document, or the exception
\* that a parser threw
convertSazDataToHar(sazData) ==
    LET sorted == SortByPosition(sazData, <<>>)
        positions == Ascending({sorted[i].position : i \in DOMAIN sorted})
    IN ConvertItems(sorted, positions, <<>>)

(***************************************************************************)
(* The capture files of the model and convertSazToHar.                     *)
(***************************************************************************)
ReqGet ==
    <<"GET", " ", "/a", " ", "HTTP/1.1", "\r", "\n",
      "Host", ":", " ", "h", "\r", "\n", "\r", "\n">>
ReqForm ==
    <<"POST", " ", "/a", " ", "HTTP/1.1", "\n",
      "Content-Type", ":", " ", "application/x-www-form-urlencoded", "\n", "\n",
      "a", "=", "%", "4", "1">>
ReqFormBadEscape ==
    <<"POST", " ", "/a", " ", "HTTP/1.1", "\n",
      "Content-Type", ":", " ", "application/x-www-form-urlencoded", "\n", "\n",
      "a", "=", "%">>
RespText ==
    <<"HTTP/1.1", " ", "2", "0", "0", " ", "OK", "\r", "\n",
      "Content-Type", ":", " ", "text/plain", ";", " ", "charset=utf-8", "\r", "\n",
      "\r", "\n", "a">>
RespBinary ==
    <<"HTTP/1.1", " ", "2", "0", "4", "\n",
      "Content-Type", ":", "application/octet-stream", "\n", "\n", "E9", "\f">>
Metadata == <<"<Session/>">>

SazFile(name, content) == [name |-> name, content |-> content]

\* the files a raw directory is made of
Library ==
    {SazFile(<<"1", "_", "c">>, ReqGet),
     SazFile(<<"0", "1", "_", "s">>, RespText),
     SazFile(<<"1", "_", "m">>, Metadata),
     SazFile(<<"2", "_", "c">>, ReqForm),
     SazFile(<<"2", "_", "s">>, RespBinary),
     SazFile(<<"3", "_", "c">>, ReqFormBadEscape),
     SazFile(<<"3", "_", "s">>, <<"HTTP/1.1", " ", "OK", "\r", "\n", "\r", "\n">>),
     SazFile(<<"4", "_", "c">>, <<"GET", "\r", "\n", "\r", "\n">>),
     SazFile(<<"c", "_", "4">>, Metadata)}

\* the listings readdir can return: the files of a bundle, in any order
Bundles ==
    UNION {{b \in [1..n -> Library] : \A i, j \in 1..n : b[i] = b[j] => i = j}
             : n \in 0..MaxFiles}

\* extract(sazPath, {dir: tempDir}) resolves
ConvExtract ==
    /\ conv.pc = "start"
    /\ conv' = [conv EXCEPT !.pc = "readdir", !.tempDir = TRUE]
    /\ UNCHANGED <<serverVars, call>>

\* extract rejects: the bundle cannot be unpacked; the finally block is next
ConvExtractFails ==
    /\ conv.pc = "start"
    /\ conv' = [conv EXCEPT !.pc = "cleanup", !.tempDir = TRUE, !.result = "rejected",
                            !.error = "extract"]
    /\ UNCHANGED <<serverVars, call>>

\* fs.readdir(rawDataDir) resolves
ConvReaddir ==
    /\ conv.pc = "readdir"
    /\ conv' = [conv EXCEPT !.pc = "read", !.todo = conv.files]
    /\ UNCHANGED <<serverVars, call>>

\* one turn of the loop over the files: readFile, parseSazFile, push
ConvReadFile ==
    /\ conv.pc = "read"
    /\ conv.todo # <<>>
    /\ LET file == Head(conv.todo)
           parsedData == parseSazFile(file.name, file.content)
       IN conv' = [conv EXCEPT !.todo = Tail(conv.todo),
                               !.sazData = IF parsedData.parsed
                                           THEN Append(conv.sazData, parsedData)
                                           ELSE conv.sazData]
    /\ UNCHANGED <<serverVars, call>>

\* after the loop: convertSazDataToHar returns and writeFile writes the document
ConvWrite ==
    /\ conv.pc = "read"
    /\ conv.todo = <<>>
    /\ \E harData \in {convertSazDataToHar(conv.sazData)} :
          /\ harData.kind = "har"
          /\ conv' = [conv EXCEPT !.pc = "cleanup", !.result = "resolved",
                                  !.harFile = [written |-> TRUE,
                                               entries |-> harData.entries]]
    /\ UNCHANGED <<serverVars, call>>

\* after the loop: convertSazDataToHar throws, writeFile is not reached
ConvThrow ==
    /\ conv.pc = "read"
    /\ conv.todo = <<>>
    /\ convertSazDataToHar(conv.sazData).kind = "throw"
    /\ conv' = [conv EXCEPT !.pc = "cleanup", !.result = "rejected", !.error = "URIError"]
    /\ UNCHANGED <<serverVars, call>>

\* the finally block: rimraf(tempDir); the promise settles
ConvCleanup ==
    /\ conv.pc = "cleanup"
    /\ conv' = [conv EXCEPT !.pc = "done", !.tempDir = FALSE]
    /\ UNCHANGED <<serverVars, call>>

\* one call of convertSazToHar on a bundle, the target path not existing
InitConv ==
    /\ InitServer({}, 0, 0, FALSE)
    /\ \E b \in Bundles : conv = [NoConversion EXCEPT !.pc = "start", !.files = b]
    /\ call = NoCall

NextConv ==
    \/ ConvExtract
    \/ ConvExtractFails
    \/ ConvReaddir
    \/ ConvReadFile
    \/ ConvWrite
    \/ ConvThrow
    \/ ConvCleanup

SpecConv == InitConv /\ [][NextConv]_vars

(***************************************************************************)
(* base64, and the functions of the two files called on their own.         *)
(***************************************************************************)
\* bytes a body drawn for a call holds at most
MaxBody == 3

\* the value of a byte of a buffer; Buffer.from(text, 'binary') keeps the
\* low byte of a character beyond U+00FF
ByteOf(t) ==
    CASE t = "00" -> 0 [] t = "\n" -> 10 [] t = "\f" -> 12 [] t = "\r" -> 13
      [] t = "a" -> 97 [] t = "E9" -> 233 [] t = "FFFD" -> 253 [] OTHER -> 63

RECURSIVE Base64Encode(_)
\* buffer.toString('base64'): three bytes make four digits of six bits,
\* a digit being its position in the alphabet; 64 is the padding "="
Base64Encode(bs) ==
    IF bs = <<>> THEN <<>>
    ELSE IF Len(bs) = 1
    THEN <<bs[1] \div 4, (bs[1] % 4) * 16, 64, 64>>
    ELSE IF Len(bs) = 2
    THEN <<bs[1] \div 4, (bs[1] % 4) * 16 + bs[2] \div 16, (bs[2] % 16) * 4, 64>>
    ELSE <<bs[1] \div 4, (bs[1] % 4) * 16 + bs[2] \div 16,
           (bs[2] % 16) * 4 + bs[3] \div 64, bs[3] % 64>>
         \o Base64Encode(SubSeq(bs, 4, Len(bs)))

RECURSIVE Base64Decode(_)
\* Buffer.from(text, 'base64'): four digits make up to three bytes
Base64Decode(ds) ==
    IF Len(ds) < 4 THEN <<>>
    ELSE <<ds[1] * 4 + ds[2] \div 16>>
         \o (IF ds[3] = 64 THEN <<>> ELSE <<(ds[2] % 16) * 16 + ds[3] \div 4>>)
         \o (IF ds[3] = 64 \/ ds[4] = 64 THEN <<>> ELSE <<(ds[3] % 4) * 64 + ds[4]>>)
         \o Base64Decode(SubSeq(ds, 5, Len(ds)))

\* content.text: bodyBuffer.toString('base64') or bodyBuffer.toString('utf-8')
ContentText(content) ==
    IF content.encoding = "base64"
    THEN Base64Encode([i \in DOMAIN content.bytes |-> ByteOf(content.bytes[i])])
    ELSE Utf8Decode(content.bytes)

\* the bodies of the calls: every sequence of at most MaxBody of these bytes
BodyBytes == {"00", "\n", "\r", "E9", "a"}
Bodies == UNION {[1..n -> BodyBytes] : n \in 0..MaxBody}

\* a response blob of MIME type application/octet-stream, its lines ended by eol
OctetStreamBlob(eol, body) ==
    <<"HTTP/1.1", " ", "2", "0", "0", " ", "OK">> \o eol
    \o <<"Content-Type", ":", " ", "application/octet-stream">> \o eol \o eol \o body

\* the MIME types of the blobs of the calls
BlobMimeTypes ==
    {"text/plain", "image/png", "application/json", "application/octet-stream",
     "application/rss+xml", "application/x-custom"}

\* the status lines of the response blobs of the calls, after "HTTP/1.1":
\* the status token, whether it is an integer and which, the status text
StatusLines ==
    {[token |-> <<"2", "0", "0">>, integer |-> TRUE, value |-> 200, text |-> <<"OK">>],
     [token |-> <<"4", "0", "4">>, integer |-> TRUE, value |-> 404,
      text |-> <<"Not", " ", "Found">>],
     [token |-> <<"2", "0", "4">>, integer |-> TRUE, value |-> 204, text |-> <<>>],
     [token |-> <<"2", "0", "0", "x">>, integer |-> FALSE, value |-> 0, text |-> <<"OK">>],
     [token |-> <<"x">>, integer |-> FALSE, value |-> 0, text |-> <<"OK">>],
     [token |-> <<>>, integer |-> FALSE, value |-> 0, text |-> <<>>]}

\* a response blob written from its status line, its MIME type and its body
ResponseBlob(line, mime, body) ==
    <<"HTTP/1.1">> \o (IF line.token = <<>> THEN <<>> ELSE <<" ">> \o line.token)
    \o (IF line.text = <<>> THEN <<>> ELSE <<" ">> \o line.text)
    \o <<"\r", "\n", "Content-Type", ":", " ", mime, "\r", "\n", "\r", "\n">> \o body

\* a request blob written from its MIME type and its body
RequestBlob(mime, body) ==
    <<"POST", " ", "/a", " ", "HTTP/1.1", "\r", "\n",
      "Content-Type", ":", " ", mime, "\r", "\n", "\r", "\n">> \o body

\* headers a recorded response drawn for a call holds at most
MaxHeaders == 2

RECURSIVE OutgoingHeadersUnfiltered(_, _)
\* the object filled from the whole list, the filter left out
OutgoingHeadersUnfiltered(hs, acc) ==
    IF hs = <<>> THEN acc
    ELSE LET h == Head(hs)
             at == {i \in DOMAIN acc : acc[i].name = h.name}
         IN OutgoingHeadersUnfiltered(Tail(hs),
                IF at = {} THEN Append(acc, h)
                ELSE [acc EXCEPT ![CHOOSE i \in at : TRUE] = h])

RECURSIVE OutgoingHeaders(_, _)
\* response.headers.filter(...).forEach(h => { headers[h.name] = h.value }):
\* the properties of the object, in the order of their creation; a name
\* assigned again keeps its place and takes the new value
OutgoingHeaders(hs, acc) ==
    IF hs = <<>> THEN acc
    ELSE LET h == Head(hs)
             at == {i \in DOMAIN acc : acc[i].name = h.name}
         IN OutgoingHeaders(Tail(hs),
                IF ToLowerCase(h.name) \in {<<"content-encoding">>, <<"transfer-encoding">>,
                                            <<"connection">>, <<"content-length">>}
                THEN acc
                ELSE IF at = {} THEN Append(acc, h)
                ELSE [acc EXCEPT ![CHOOSE i \in at : TRUE] = h])

\* sendResponse: what writeHead and end are called with
sendResponse(entry) ==
    IF ~entry.hasResponse
    THEN [status |-> 500, statusText |-> "", headers |-> <<>>,
          body |-> <<"Internal Server Error: Malformed HAR entry data.">>]
    ELSE LET response == entry.response IN
         [status |-> response.status, statusText |-> response.statusText,
          headers |-> OutgoingHeaders(response.headers, <<>>),
          body |-> IF response.content.text = <<>> THEN <<>>
                   ELSE IF response.content.encoding = "base64"
                   THEN Base64Decode(response.content.text)
                   ELSE response.content.text]

\* the recorded responses of the calls of sendResponse
HarResponses ==
    LET header == {[name |-> <<"Content-Type">>, value |-> "text/plain"],
                   [name |-> <<"content-length">>, value |-> "1"],
                   [name |-> <<"Content-Length">>, value |-> "1"],
                   [name |-> <<"Transfer-Encoding">>, value |-> "chunked"],
                   [name |-> <<"CONNECTION">>, value |-> "close"],
                   [name |-> <<"Content-Encoding">>, value |-> "gzip"],
                   [name |-> <<"Set-Cookie">>, value |-> "c=1"],
                   [name |-> <<"Set-Cookie">>, value |-> "c=2"]}
        content == {[text |-> <<>>, encoding |-> ""], [text |-> <<"a">>, encoding |-> ""],
                    [text |-> <<24, 16, 64, 64>>, encoding |-> "base64"]}
    IN {[status |-> 404, statusText |-> "Not Found", headers |-> hs, content |-> c] :
          hs \in UNION {[1..n -> header] : n \in 0..MaxHeaders}, c \in content}

\* a served entry handed to sendResponse
CallSendResponse ==
    /\ call.pc = "ready" /\ call.fn = "sendResponse"
    /\ call' = [call EXCEPT !.pc = "done", !.sent = sendResponse(call.entry)]
    /\ UNCHANGED <<serverVars, conv>>

\* members of a JSON object, or parameters of a query, drawn for a call
MaxMembers == 2

\* the body texts of the calls of compareBody: the empty text, two
\* primitives, two texts that are no JSON, and the objects written member
\* by member; members is what the text was written from
JsonDocs ==
    LET member == {<<"a", "1">>, <<"a", "2">>, <<"b", "2">>, <<"a", "\"1\"">>}
        text(ms) == [j \in 1..(IF Len(ms) = 0 THEN 2 ELSE 4 * Len(ms) + 1) |->
                       IF j = 1 THEN "{"
                       ELSE IF j = 4 * Len(ms) + 1 \/ Len(ms) = 0 THEN "}"
                       ELSE IF j % 4 = 2 THEN ms[(j + 2) \div 4][1]
                       ELSE IF j % 4 = 3 THEN ":"
                       ELSE IF j % 4 = 0 THEN ms[j \div 4][2]
                       ELSE ","]
    IN {[form |-> "empty", members |-> <<>>, text |-> <<>>],
        [form |-> "primitive", members |-> <<>>, text |-> <<"1">>],
        [form |-> "primitive", members |-> <<>>, text |-> <<"\"1\"">>],
        [form |-> "malformed", members |-> <<>>, text |-> <<"b">>],
        [form |-> "malformed", members |-> <<>>, text |-> <<"{", "a", ":", "1">>]}
       \cup {[form |-> "object", members |-> ms, text |-> text(ms)] :
               ms \in UNION {[1..n -> member] : n \in 0..MaxMembers}}

\* the query strings of the calls of compareQueryParams, written parameter
\* by parameter
Queries ==
    LET param == {<<"x", "1">>, <<"x", "2">>, <<"y", "2">>}
        text(ps) == [j \in 1..(IF Len(ps) = 0 THEN 0 ELSE 4 * Len(ps) - 1) |->
                       IF j % 4 = 1 THEN ps[(j + 3) \div 4][1]
                       ELSE IF j % 4 = 2 THEN "="
                       ELSE IF j % 4 = 3 THEN ps[(j + 1) \div 4][2]
                       ELSE "&"]
    IN {[params |-> ps, text |-> text(ps)] :
          ps \in UNION {[1..n -> param] : n \in 0..MaxMembers}}

\* the body predicate on a candidate: one recorded with a JSON MIME type
\* and a body text, one whose postData has no text string, one with no
\* postData at all
CallCompareBody ==
    /\ call.pc = "ready" /\ call.fn = "compareBody"
    /\ call' = [call EXCEPT !.pc = "done",
                  !.result = compareBody(call.req.text,
                               CASE call.recorded = "text" ->
                                      PostData(call.mime, call.har.text)
                                 [] call.recorded = "notext" ->
                                      [PostData(call.mime, <<>>) EXCEPT !.hasText = FALSE]
                                 [] OTHER -> NoPostData)]
    /\ UNCHANGED <<serverVars, conv>>

\* the query predicate on a candidate
CallCompareQueryParams ==
    /\ call.pc = "ready" /\ call.fn = "compareQueryParams"
    /\ call' = [call EXCEPT !.pc = "done",
                  !.result = compareQueryParams(call.req.text, call.har.text)]
    /\ UNCHANGED <<serverVars, conv>>

\* a file of a bundle goes through parseSazFile and parseHttpResponse
CallParseResponse ==
    /\ call.pc = "ready" /\ call.fn = "parseHttpResponse"
    /\ LET d == parseSazFile(<<"1", "_", "s">>, call.blob)
           response == parseHttpResponse(d.raw)
       IN call' = [call EXCEPT !.pc = "done",
                     !.kind = response.kind,
                     !.status = IF response.kind = "record" THEN response.status ELSE 0,
                     !.statusText = IF response.kind = "record"
                                    THEN response.statusText ELSE <<>>,
                     !.encoding = IF response.kind = "record"
                                  THEN response.content.encoding ELSE "",
                     !.text = IF response.kind = "record"
                              THEN ContentText(response.content) ELSE <<>>]
    /\ UNCHANGED <<serverVars, conv>>

\* a request blob and a response blob of the same MIME type and the same
\* body go through parseSazFile and their parsers
CallParseRequestAndResponse ==
    /\ call.pc = "ready" /\ call.fn = "parseHttpRequest, parseHttpResponse"
    /\ LET c == parseSazFile(<<"1", "_", "c">>, RequestBlob(call.mime, call.body))
           d == parseSazFile(<<"1", "_", "s">>,
                             ResponseBlob(CHOOSE l \in StatusLines : l.value = 200,
                                          call.mime, call.body))
           request == parseHttpRequest(c.raw)
           response == parseHttpResponse(d.raw)
       IN call' = [call EXCEPT !.pc = "done",
                     !.request = IF request.kind # "record" THEN request.kind
                                 ELSE IF ~request.postData.present THEN "none"
                                 ELSE IF request.postData.encoding = "base64"
                                 THEN "base64" ELSE "text",
                     !.response = IF response.kind # "record" THEN response.kind
                                  ELSE IF response.content.encoding = "base64"
                                  THEN "base64" ELSE "text"]
    /\ UNCHANGED <<serverVars, conv>>

\* the parsed files of the calls of convertSazDataToHar: at most MaxBlobs
\* of them, for the sequence numbers 1 and 2, each a request or a response,
\* one of two blobs or empty
MaxBlobs == 3
SazBlobs ==
    {parseSazFile(<<n, "_", f[1]>>, f[2]) :
        n \in {"1", "2"},
        f \in {<<"c", ReqGet>>, <<"c", ReqForm>>, <<"c", <<>> >>,
               <<"s", RespText>>, <<"s", RespBinary>>, <<"s", <<>> >>}}

\* convertSazDataToHar on the parsed files in the order of their arrival;
\* merged is mergedData after the loop that groups them
CallConvertSazDataToHar ==
    /\ call.pc = "ready" /\ call.fn = "convertSazDataToHar"
    /\ LET sorted == SortByPosition(call.sazData, <<>>)
           harData == CHOOSE h \in {convertSazDataToHar(call.sazData)} : TRUE
       IN call' = [call EXCEPT !.pc = "done",
                     !.merged = [n \in {1, 2} |->
                                   [request |-> MergedRaw(sorted, n, "request", <<>>),
                                    response |-> MergedRaw(sorted, n, "response", <<>>)]],
                     !.entries = harData.entries]
    /\ UNCHANGED <<serverVars, conv>>

\* the documents of the calls of loadHars: in each up to MaxEntries entries
\* for /a, each a GET, a post, or an entry that lacks its URL, its response
\* or its method; the entries are numbered document by document
MaxEntries == 2
HarDocuments(d) ==
    LET kinds == {"GET", "post", "no url", "no response", "no method"}
        entry(i, kind) ==
            HarEntry((d - 1) * MaxEntries + i,
                     CASE kind = "post" -> "post" [] kind = "no method" -> ""
                       [] OTHER -> "GET",
                     kind # "no url", "/a", <<>>, NoPostData, kind # "no response")
    IN {[i \in 1..Len(ks) |-> entry(i, ks[i])] :
          ks \in UNION {[1..n -> kinds] : n \in 0..MaxEntries}}

RECURSIVE ProcessDocuments(_, _, _)
\* the loop of loadHars over the documents, given by their entries
ProcessDocuments(docs, map, h) ==
    IF docs = <<>> THEN [map |-> map, heap |-> h]
    ELSE CHOOSE r \in {ProcessDocuments(Tail(docs), n.map, n.heap) :
                         n \in {ProcessEntries(Head(docs), map, h)}} : TRUE

\* loadHars running alone from its first line to its last
CallLoadHars ==
    /\ call.pc = "ready" /\ call.fn = "loadHars"
    /\ LET c == LoadHarsClear(harDataMap, heap)
           r == CHOOSE x \in {ProcessDocuments(call.docs, c.map, c.heap)} : TRUE
       IN call' = [call EXCEPT !.pc = "done",
                     !.index = [k \in Keys |->
                                  IF r.map[k] = 0
                                  THEN [present |-> FALSE, entries |-> <<>>,
                                        currentIndex |-> 0]
                                  ELSE [present |-> TRUE,
                                        entries |-> r.heap[r.map[k]].entries,
                                        currentIndex |-> r.heap[r.map[k]].currentIndex]]]
    /\ UNCHANGED <<serverVars, conv>>

\* request.postData as the server finds it in the document the converter
\* wrote: JSON keeps mimeType and, where the converter set them, text and
\* params; the postData of a form body has params and no text
ReadBackPostData(pd) ==
    IF ~pd.present THEN NoPostData
    ELSE [present |-> TRUE,
          hasText |-> pd.mimeType # <<"application/x-www-form-urlencoded">>,
          mimeType |-> pd.mimeType[1],
          text |-> IF pd.mimeType = <<"application/x-www-form-urlencoded">>
                   THEN <<>> ELSE ContentText(pd)]

\* a captured POST goes through parseSazFile and parseHttpRequest, and the
\* postData of the entry is compared with the body of a live request
CallConvertAndCompareBody ==
    /\ call.pc = "ready" /\ call.fn = "parseHttpRequest, compareBody"
    /\ LET c == parseSazFile(<<"1", "_", "c">>, RequestBlob(call.mime, call.har.text))
           request == parseHttpRequest(c.raw)
       IN call' = [call EXCEPT !.pc = "done",
                     !.kind = request.kind,
                     !.result = IF request.kind = "record"
                                THEN compareBody(call.req.text,
                                                 ReadBackPostData(request.postData))
                                ELSE FALSE]
    /\ UNCHANGED <<serverVars, conv>>

InitCall ==
    /\ InitServer({}, 0, 0, FALSE)
    /\ conv = NoConversion
    /\ \/ \E eol \in {<<"\r", "\n">>, <<"\n">>}, body \in Bodies :
             call = [pc |-> "ready", fn |-> "parseHttpResponse",
                     line |-> CHOOSE l \in StatusLines : l.value = 200,
                     mime |-> "application/octet-stream", body |-> body,
                     blob |-> OctetStreamBlob(eol, body),
                     kind |-> "", status |-> 0, statusText |-> <<>>,
                     encoding |-> "", text |-> <<>>]
       \/ \E line \in StatusLines, mime \in BlobMimeTypes, body \in Bodies :
             /\ line.value = 200 \/ (mime = "text/plain" /\ Len(body) = 1)
             /\ call = [pc |-> "ready", fn |-> "parseHttpResponse",
                        line |-> line, mime |-> mime, body |-> body,
                        blob |-> ResponseBlob(line, mime, body),
                        kind |-> "", status |-> 0, statusText |-> <<>>,
                        encoding |-> "", text |-> <<>>]
       \/ \E mime \in BlobMimeTypes, body \in Bodies \ {<<>>} :
             call = [pc |-> "ready", fn |-> "parseHttpRequest, parseHttpResponse",
                     mime |-> mime, body |-> body, request |-> "", response |-> ""]
       \/ \E mime \in {"application/json", "application/json; charset=utf-8"},
             req \in JsonDocs, har \in JsonDocs :
             call = [pc |-> "ready", fn |-> "compareBody", recorded |-> "text",
                     mime |-> mime, req |-> req, har |-> har, result |-> FALSE]
       \/ \E recorded \in {"notext", "absent"},
             mime \in {"application/json", "application/x-www-form-urlencoded",
                       "text/plain"},
             req \in JsonDocs :
             call = [pc |-> "ready", fn |-> "compareBody", recorded |-> recorded,
                     mime |-> IF recorded = "absent" THEN "" ELSE mime, req |-> req,
                     har |-> [form |-> "empty", members |-> <<>>, text |-> <<>>],
                     result |-> FALSE]
       \/ \E mime \in {"application/x-www-form-urlencoded", "text/plain"},
             req \in Queries, har \in Queries :
             call = [pc |-> "ready", fn |-> "parseHttpRequest, compareBody",
                     mime |-> mime, req |-> req, har |-> har,
                     kind |-> "", result |-> FALSE]
       \/ \E req \in Queries, har \in Queries :
             call = [pc |-> "ready", fn |-> "compareQueryParams",
                     req |-> req, har |-> har, result |-> FALSE]
       \/ \E sazData \in UNION {[1..n -> SazBlobs] : n \in 0..MaxBlobs} :
             call = [pc |-> "ready", fn |-> "convertSazDataToHar", sazData |-> sazData,
                     merged |-> [n \in {1, 2} |-> [request |-> <<>>, response |-> <<>>]],
                     entries |-> <<>>]
       \/ \E first \in HarDocuments(1), second \in HarDocuments(2) :
             call = [pc |-> "ready", fn |-> "loadHars", docs |-> <<first, second>>,
                     index |-> [k \in Keys |-> [present |-> FALSE, entries |-> <<>>,
                                                currentIndex |-> 0]]]
       \/ \E response \in HarResponses, hasResponse \in BOOLEAN :
             call = [pc |-> "ready", fn |-> "sendResponse",
                     entry |-> [hasResponse |-> hasResponse, response |-> response],
                     sent |-> [status |-> 0, statusText |-> "", headers |-> <<>>,
                               body |-> <<>>]]

NextCall ==
    \/ CallParseResponse
    \/ CallCompareBody
    \/ CallCompareQueryParams
    \/ CallSendResponse
    \/ CallLoadHars
    \/ CallParseRequestAndResponse
    \/ CallConvertSazDataToHar
    \/ CallConvertAndCompareBody

SpecCall == InitCall /\ [][NextCall]_vars

(***************************************************************************)
(* Properties of the replay matcher.                                       *)
(***************************************************************************)
\* the served events: a request answered from a recorded entry
Served == ev.kind \in {"request", "body"} /\ ev.how \in {"match", "fallback"}

\* the positions of ev.list whose candidate satisfies the predicate of the
\* request of ev
SatisfyingPositions ==
    {i \in 1..Len(ev.list) : Satisfies(ev.method, ev.query, ev.body, ev.list[i])}

\* the cursor of the list of key k, -1 when the key has no list
LiveCursor(map, h, k) == IF map[k] = 0 THEN -1 ELSE h[map[k]].currentIndex

\* C1: round-robin fallback.  On an endpoint whose cursor was 0 and whose
\* list has N entries, the k-th request served by fallback since then gets
\* entry (k-1) mod N of the list: entries 0..N-1 in list order, then
\* entry 0 again.
C1_RoundRobin ==
    \A o \in ObjIds :
        heap[o].obs /\ heap[o].base = 0 =>
            \A k \in 1..Len(heap[o].fb) :
                heap[o].fb[k] = heap[o].entries[((k - 1) % Len(heap[o].entries)) + 1]

\* a list of N >= 2 entries has served N + 1 consecutive fallback requests
C1_Witness ==
    \E o \in ObjIds :
        /\ heap[o].obs /\ heap[o].base = 0 /\ heap[o].nm = 0
        /\ Len(heap[o].entries) >= 2
        /\ Len(heap[o].fb) = Len(heap[o].entries) + 1

\* C2: attribute-matched requests never change a cursor.  After M
\* fallback-served requests and any number of attribute-matched ones, in
\* any interleaving, the cursor is (initial cursor + M) mod length.
C2_CursorCountsFallbacks ==
    \A o \in ObjIds :
        heap[o].obs =>
            heap[o].currentIndex
                = (heap[o].base + Len(heap[o].fb)) % Len(heap[o].entries)

\* an attribute match has just been served from a list that fallback
\* requests have moved off its initial cursor
C2_Witness ==
    /\ Served /\ ev.how = "match"
    /\ \E o \in ObjIds :
          /\ heap[o].obs /\ heap[o].nm = 1 /\ heap[o].entries = ev.list
          /\ Len(heap[o].fb) >= 1 /\ heap[o].currentIndex # heap[o].base

\* C5: when some candidate satisfies the predicate, the entry served is
\* the satisfying candidate of lowest position, whatever the cursor and
\* however many candidates satisfy it (and fallback is used only when none
\* does).
C5_FirstSatisfyingWins ==
    Served =>
        IF SatisfyingPositions = {}
        THEN ev.how = "fallback"
        ELSE ev.how = "match" /\ ev.served = ev.list[Min(SatisfyingPositions)]

\* two candidates satisfy the predicate and the cursor is not at 0
C5_Witness ==
    /\ Served /\ ev.how = "match"
    /\ Cardinality(SatisfyingPositions) >= 2
    /\ ev.cursor # 0

\* C6: a body-bearing request whose connection errors or closes before
\* the body has arrived advances no cursor: not of a list of the index,
\* not of a list another suspended request holds.
C6_AbortedAdvancesNothing ==
    [][\A r \in Slots :
          BodyError(r) \/ BodyClose(r) =>
            /\ \A k \in Keys :
                  LiveCursor(harDataMap', heap', k) = LiveCursor(harDataMap, heap, k)
            /\ \A q \in Slots \ {r} :
                  reqs[q].pc = "await" =>
                     /\ reqs'[q].pc = "await"
                     /\ heap'[reqs'[q].obj].currentIndex = heap[reqs[q].obj].currentIndex
      ]_vars

\* a request has been aborted while another one is suspended on a list of
\* several entries
C6_Witness ==
    /\ ev.kind = "body" /\ ev.how \in {"error", "closed"}
    /\ Len(ev.list) >= 2
    /\ \E q \in Slots : reqs[q].pc = "await"

\* C7: reset sets the cursor of every endpoint of the live index to 0 and
\* leaves the set of endpoints and every candidate list as they are.
C7_ResetFrame ==
    [][ManageReset =>
          /\ harDataMap' = harDataMap
          /\ \A k \in Keys :
                harDataMap[k] # 0 =>
                   /\ heap'[harDataMap[k]].currentIndex = 0
                   /\ heap'[harDataMap[k]].entries = heap[harDataMap[k]].entries
      ]_vars

\* a reset has just put at least one cursor back to 0
C7_Witness ==
    /\ ev.kind = "reset" /\ ev.count >= 1
    /\ \E k \in Keys : harDataMap[k] # 0 /\ Len(heap[harDataMap[k]].entries) >= 2
    /\ \A k \in Keys : LiveCursor(harDataMap, heap, k) \in {-1, 0}

\* C8: a request whose (method, path) has no candidate list is answered
\* 404, never 500, without its body being read and without any change to
\* a cursor or to a list.
C8_NotFound ==
    [][\A m \in Methods, p \in LivePaths :
          (/\ Lookup(harDataMap, heap, m, p) = 0
           /\ \/ \E q \in LiveQueries : ReplayRequest(m, p, q)
              \/ \E r \in Slots : ReplayArrive(r, m, p))
          => /\ ev'.status = 404
             /\ ~ev'.bodyRead
             /\ reqs' = reqs
             /\ heap' = heap
             /\ harDataMap' = harDataMap
      ]_vars

\* a body-bearing request has just been answered not-found while some
\* cursor of the index is not 0
C8_Witness ==
    /\ ev.kind = "request" /\ ev.how = "notfound" /\ ev.status = 404
    /\ ev.method \in METHODS_WITH_BODY
    /\ \E k \in Keys : LiveCursor(harDataMap, heap, k) > 0

(***************************************************************************)
(* Properties of reload.                                                   *)
(***************************************************************************)
ValidEntry(e) == e.hasUrl /\ e.hasResponse /\ e.hasMethod

RECURSIVE IdsOf(_)
IdsOf(es) == IF es = <<>> THEN <<>> ELSE <<Head(es).id>> \o IdsOf(Tail(es))

\* the valid entries of document f recorded for key k
FileList(f, k) ==
    IdsOf(SelectSeq(HarFileEntries(f),
                    LAMBDA e : ValidEntry(e) /\ <<ToUpperCase(e.method), e.path>> = k))

\* the candidate list of key k in the complete index of the document set D
CompleteList(k, D) ==
    FileList(InitialFile, k)
      \o (IF ExtraFile \in D THEN FileList(ExtraFile, k) ELSE <<>>)
      \o (IF StorageFile \in D THEN FileList(StorageFile, k) ELSE <<>>)

\* the document sets the disk holds before or after an upload or a delete
DocumentSets == {disk \ {StorageFile}, disk \cup {StorageFile}}

\* C24: after an index build that ran with no other reload beside it, the
\* candidate list of each (uppercase method, path) is exactly the sequence
\* of the valid entries whose upper-cased method and path are that key, in
\* document order and then in entry order, and its cursor is 0.
C24_IndexIsTheValidEntriesInOrder ==
    call.pc = "done" /\ call.fn = "loadHars" =>
       \A k \in Keys :
          /\ call.index[k].entries
                = IdsOf(SelectSeq(call.docs[1] \o call.docs[2],
                                  LAMBDA e : ValidEntry(e)
                                             /\ <<ToUpperCase(e.method), e.path>> = k))
          /\ call.index[k].currentIndex = 0

\* C25: an entry that lacks its URL, its method or its response is skipped
\* on its own: every valid entry of the documents, those of the same
\* document before and after it included, is in the candidate list of its
\* key after the build.
C25_InvalidEntrySkippedAlone ==
    call.pc = "done" /\ call.fn = "loadHars" =>
       \A d \in DOMAIN call.docs : \A i \in DOMAIN call.docs[d] :
          LET e == call.docs[d][i]
              list == call.index[<<ToUpperCase(e.method), e.path>>].entries
          IN ValidEntry(e) => \E j \in DOMAIN list : list[j] = e.id

\* C3: a reload never exposes a half-built index.  The lookup of every
\* request, also of one that arrives during a reload, yields what a
\* complete index yields: the whole candidate list of the endpoint for the
\* documents before or after the reload, and not-found only if the
\* endpoint has no candidates there.
C3_LookupSeesCompleteIndex ==
    ev.kind = "request" =>
        \E D \in DocumentSets :
            ev.list = (IF <<ev.method, ev.path>> \in Keys
                       THEN CompleteList(<<ev.method, ev.path>>, D) ELSE <<>>)

\* C4: a matcher call whose lookup preceded a reload and whose body is
\* complete after that reload finished evaluates the candidate list the
\* endpoint had when the reload began, whole and in its order, and serves
\* an entry of it.
C4_OneCandidateSet ==
    ev.kind = "body" /\ ev.phase = 2 /\ ev.how \in {"match", "fallback"} =>
        /\ ev.list = ev.pre
        /\ \E i \in 1..Len(ev.pre) : ev.pre[i] = ev.served

\* such a call has been served by fallback, the reload is over and the
\* live list of the endpoint is not the list the call evaluated
C4_Witness ==
    /\ ev.kind = "body" /\ ev.phase = 2 /\ ev.how = "fallback"
    /\ \A l \in LoadIds : loads[l].pc = "idle"
    /\ harDataMap[<<ev.method, ev.path>>] # 0
    /\ heap[harDataMap[<<ev.method, ev.path>>]].entries # ev.list

(***************************************************************************)
(* Properties of the conversion.                                           *)
(***************************************************************************)
\* the blobs of a listing: every file with its parsed name
RawFiles(files) ==
    {d \in {parseSazFile(files[i].name, files[i].content) : i \in DOMAIN files} : d.parsed}

\* the sequence numbers of a listing
Positions(files) == {d.position : d \in RawFiles(files)}

\* the sequence number has a blob of the type whose parse returns a record
HasParseable(files, position, type) ==
    \E d \in RawFiles(files) :
        /\ d.position = position /\ d.type = type
        /\ IF type = "request" THEN parseHttpRequest(d.raw).kind = "record"
           ELSE parseHttpResponse(d.raw).kind = "record"

\* the sequence numbers with a parseable request and a parseable response
ValidPositions(files) ==
    {n \in Positions(files) :
        HasParseable(files, n, "request") /\ HasParseable(files, n, "response")}

\* the sequence numbers that lack their request blob or their response blob
IncompletePositions(files) ==
    {n \in Positions(files) :
        \/ ~\E d \in RawFiles(files) : d.position = n /\ d.type = "request"
        \/ ~\E d \in RawFiles(files) : d.position = n /\ d.type = "response"}

\* the listing without the files of a sequence number
WithoutPosition(files, n) ==
    SelectSeq(files, LAMBDA f : LET d == parseSazFile(f.name, f.content)
                                IN ~(d.parsed /\ d.position = n))

RECURSIVE ParseAll(_, _)
ParseAll(files, acc) ==
    IF files = <<>> THEN acc
    ELSE LET d == parseSazFile(Head(files).name, Head(files).content)
         IN ParseAll(Tail(files), IF d.parsed THEN Append(acc, d) ELSE acc)

\* the document at the target path after a conversion of the listing that
\* was unpacked
Archive(files) ==
    LET harData == CHOOSE h \in {convertSazDataToHar(ParseAll(files, <<>>))} : TRUE
    IN IF harData.kind = "har" THEN [written |-> TRUE, entries |-> harData.entries]
       ELSE [written |-> FALSE, entries |-> <<>>]

\* C9: a conversion of a bundle in which no sequence number has both a
\* parseable request and a parseable response writes no document at the
\* target path and ends by reporting failure to its caller.
C9_ZeroEntriesFailsAsAWhole ==
    conv.pc # "idle" /\ ValidPositions(conv.files) = {} =>
        /\ ~conv.harFile.written
        /\ conv.pc = "done" => conv.result = "rejected"

\* C10: the document written has as many entries as there are sequence
\* numbers with a parseable request and a parseable response, and a
\* sequence number that lacks its request blob or its response blob leaves
\* the entries what they are for the bundle without the files of that
\* sequence number.
C10_EntriesAreTheCompletePairs ==
    /\ conv.harFile.written =>
          Len(conv.harFile.entries) = Cardinality(ValidPositions(conv.files))
    /\ conv.pc = "done" /\ conv.error # "extract" =>
          \A n \in IncompletePositions(conv.files) :
              conv.harFile.entries = Archive(WithoutPosition(conv.files, n)).entries

\* C11: parsing never raises.  parseHttpRequest and parseHttpResponse return
\* a record or null on every blob (a request body with a malformed
\* percent-escape included), so no conversion ends with the exception of a
\* parser: once the bundle is unpacked, the conversion resolves and the
\* document with the entries of the other transactions is written.
C11_ParsingNeverRaises ==
    /\ conv.error # "URIError"
    /\ conv.pc = "done" /\ conv.error # "extract" =>
          conv.result = "resolved" /\ conv.harFile.written

\* C30: the entries of the document written are in strictly ascending
\* order of sequence number, whatever the order in which the files of the
\* bundle were read.
C30_EntriesAscending ==
    conv.harFile.written =>
       \A i, j \in DOMAIN conv.harFile.entries :
          i < j => conv.harFile.entries[i].position < conv.harFile.entries[j].position

\* a document of two entries has been written from a listing that gave a
\* file of the greater sequence number before every file of the lesser
C30_Witness ==
    /\ conv.harFile.written /\ Len(conv.harFile.entries) >= 2
    /\ LET first == parseSazFile(conv.files[1].name, conv.files[1].content)
       IN /\ first.parsed
          /\ first.position = conv.harFile.entries[Len(conv.harFile.entries)].position

(***************************************************************************)
(* Properties of the functions called on their own.                        *)
(***************************************************************************)
RECURSIVE DelimiterAt(_, _, _)
\* the first position at or after i where the bytes of delim stand in blob,
\* 0 when they stand nowhere
DelimiterAt(blob, delim, i) ==
    IF i + Len(delim) - 1 > Len(blob) THEN 0
    ELSE IF \A j \in 1..Len(delim) : blob[i + j - 1] = delim[j] THEN i
    ELSE DelimiterAt(blob, delim, i + 1)

\* the bytes that follow the header/body delimiter of a blob: the first
\* CR LF CR LF or, when there is none, the first LF LF
AfterDelimiter(blob) ==
    LET crlf == DelimiterAt(blob, <<"\r", "\n", "\r", "\n">>, 1)
        lf == DelimiterAt(blob, <<"\n", "\n">>, 1)
    IN IF crlf # 0 THEN SubSeq(blob, crlf + 4, Len(blob))
       ELSE IF lf # 0 THEN SubSeq(blob, lf + 2, Len(blob))
       ELSE <<>>

\* C12: binary round trip.  A response blob of Content-Type
\* application/octet-stream converts, whatever bytes its body is made of, to
\* an entry whose content encoding is base64 and whose text, decoded from
\* base64, is byte for byte what follows the header/body delimiter of the blob.
C12_BinaryRoundTrip ==
    call.pc = "done" /\ call.fn = "parseHttpResponse"
    /\ call.mime = "application/octet-stream" /\ call.line.integer =>
        /\ call.kind = "record"
        /\ call.encoding = "base64"
        /\ Base64Decode(call.text)
             = [i \in DOMAIN AfterDelimiter(call.blob) |->
                   ByteOf(AfterDelimiter(call.blob)[i])]

\* a body with a byte above 0x7F, a CR and a LF has been converted
C12_Witness ==
    /\ call.pc = "done" /\ call.fn = "parseHttpResponse"
    /\ call.encoding = "base64"
    /\ AfterDelimiter(call.blob) = <<"E9", "\r", "\n">>

\* the members a text was written from, as a set, when no key is written twice
MemberSet(doc) ==
    IF doc.form = "object"
       /\ \A i, j \in DOMAIN doc.members : doc.members[i][1] = doc.members[j][1] => i = j
    THEN {doc.members[i] : i \in DOMAIN doc.members}
    ELSE {<<"none", doc.text>>}

\* C13: JSON body matching is key-order-independent.  On a candidate
\* recorded with MIME application/json, a live body that is the recorded
\* object with its members written in another order satisfies the body
\* predicate.
C13_JsonKeyOrderIndependent ==
    call.pc = "done" /\ call.fn = "compareBody"
    /\ call.req.form = "object" /\ call.har.form = "object"
    /\ MemberSet(call.req) = MemberSet(call.har)
    => call.result

\* recorded {a:1,b:2}, live {b:2,a:1}: the candidate matches
C13_Witness ==
    /\ call.pc = "done" /\ call.fn = "compareBody"
    /\ call.har.members = <<(<<"a", "1">>), (<<"b", "2">>)>>
    /\ call.req.members = <<(<<"b", "2">>), (<<"a", "1">>)>>
    /\ call.result

\* C14: query matching is order-independent.  For a method without body, a
\* live URL whose query parameters are a permutation of the parameters of
\* the recorded URL satisfies the query predicate.
C14_QueryOrderIndependent ==
    call.pc = "done" /\ call.fn = "compareQueryParams"
    /\ Len(call.req.params) = Len(call.har.params)
    /\ (\A i \in DOMAIN call.har.params :
          Cardinality({j \in DOMAIN call.req.params : call.req.params[j] = call.har.params[i]})
          = Cardinality({j \in DOMAIN call.har.params : call.har.params[j] = call.har.params[i]}))
    => call.result

\* C21: for a method without body the query predicate is true exactly when
\* the parameters of the live URL and those of the recorded URL are the same
\* collection of (name, value) pairs, each pair as many times on one side as
\* on the other, in whatever order, a name used several times included.
C21_QueryCollectionEquality ==
    call.pc = "done" /\ call.fn = "compareQueryParams" =>
       (call.result <=>
          \A p \in {call.req.params[i] : i \in DOMAIN call.req.params}
                   \cup {call.har.params[i] : i \in DOMAIN call.har.params} :
             Cardinality({j \in DOMAIN call.req.params : call.req.params[j] = p})
             = Cardinality({j \in DOMAIN call.har.params : call.har.params[j] = p}))

\* the headers of the response of the call entry, as a set
RecordedHeaders == {call.entry.response.headers[i] : i \in DOMAIN call.entry.response.headers}

\* C15: a response sent from a recorded entry carries the status, the status
\* text and the headers of the entry, except the headers named
\* content-length, transfer-encoding or connection in whatever case, none
\* of which is sent.
C15_SentAsRecorded ==
    call.pc = "done" /\ call.fn = "sendResponse" /\ call.entry.hasResponse =>
        /\ call.sent.status = call.entry.response.status
        /\ call.sent.statusText = call.entry.response.statusText
        /\ {call.sent.headers[i] : i \in DOMAIN call.sent.headers}
             = {h \in RecordedHeaders :
                  ToLowerCase(h.name) \notin {<<"content-length">>, <<"transfer-encoding">>,
                                              <<"connection">>}}

\* C15 as amended: a header named content-encoding is not sent either, and
\* of the recorded headers that bear the very same name the last one only
\* is sent.
C15_SentAsRecordedButStripped ==
    call.pc = "done" /\ call.fn = "sendResponse" /\ call.entry.hasResponse =>
        LET hs == call.entry.response.headers IN
        /\ call.sent.status = call.entry.response.status
        /\ call.sent.statusText = call.entry.response.statusText
        /\ {call.sent.headers[i] : i \in DOMAIN call.sent.headers}
             = {hs[i] : i \in {i \in DOMAIN hs :
                  /\ ToLowerCase(hs[i].name) \notin
                        {<<"content-length">>, <<"transfer-encoding">>, <<"connection">>,
                         <<"content-encoding">>}
                  /\ \A j \in DOMAIN hs : hs[j].name = hs[i].name => j <= i}}
        /\ \A i, j \in DOMAIN call.sent.headers :
              call.sent.headers[i].name = call.sent.headers[j].name => i = j

\* an entry with a Content-Length header and a Content-Type header has
\* been sent
C15_Witness ==
    /\ call.pc = "done" /\ call.fn = "sendResponse" /\ call.entry.hasResponse
    /\ [name |-> <<"Content-Length">>, value |-> "1"] \in RecordedHeaders
    /\ [name |-> <<"Content-Type">>, value |-> "text/plain"] \in RecordedHeaders
    /\ Len(call.sent.headers) = 1

\* C26: request/response parity of the body classification.  On the same
\* MIME type, other than application/x-www-form-urlencoded, and the same
\* non-empty body, parseHttpRequest and parseHttpResponse make the same
\* decision between text and base64.
C26_ClassificationParity ==
    call.pc = "done" /\ call.fn = "parseHttpRequest, parseHttpResponse"
    => call.request = call.response

\* C27: parseHttpResponse tags a body base64 exactly when its MIME type
\* starts with image/, or is in the binary list, or the body holds a control
\* byte and the MIME type is not in the textual list; otherwise the content
\* has no encoding tag and its text is the UTF-8 decoding of the body.
C27_ResponseClassification ==
    call.pc = "done" /\ call.fn = "parseHttpResponse" /\ call.line.integer =>
       LET control == \E i \in DOMAIN call.body : call.body[i] \in {"00", "\r"}
           binary == \/ call.mime \in {"image/png", "application/octet-stream"}
                     \/ control /\ call.mime \notin {"text/plain", "application/json",
                                                      "application/rss+xml"}
       IN /\ call.kind = "record"
          /\ call.encoding = (IF binary THEN "base64" ELSE "")
          /\ ~binary =>
                call.text = [i \in DOMAIN call.body |->
                               IF call.body[i] = "E9" THEN "FFFD" ELSE call.body[i]]

\* a text/plain body of printable bytes has been converted untagged, an
\* application/rss+xml body with a control byte too, and a body with a
\* control byte of a MIME type of neither list has been tagged base64
C27_Witness ==
    /\ call.pc = "done" /\ call.fn = "parseHttpResponse" /\ call.line.integer
    /\ \/ call.mime = "text/plain" /\ call.body = <<"a", "a">> /\ call.encoding = ""
       \/ call.mime = "application/rss+xml" /\ call.body = <<"00">> /\ call.encoding = ""
       \/ call.mime = "application/x-custom" /\ call.body = <<"a", "00">>
          /\ call.encoding = "base64"

\* C28: parseHttpResponse returns null whenever the second token of the
\* status line is not an integer, a token that only begins with digits
\* included, and otherwise returns that integer as the status and the
\* remaining tokens joined by spaces as the status text.
C28_StatusIsAnInteger ==
    call.pc = "done" /\ call.fn = "parseHttpResponse" =>
       IF call.line.integer
       THEN /\ call.kind = "record" /\ call.status = call.line.value
            /\ call.statusText = call.line.text
       ELSE call.kind = "null"

\* C29: grouping is last-write-wins per role.  When two or more blobs of
\* the same sequence number and the same role arrive in one run, the grouped
\* transaction holds, for that role, the bytes of the one that arrived
\* last, whatever they are, none at all included.
C29_LastWriteWins ==
    call.pc = "done" /\ call.fn = "convertSazDataToHar" =>
       \A n \in {1, 2}, role \in {"request", "response"} :
          LET arrivals == {i \in DOMAIN call.sazData :
                             call.sazData[i].position = n /\ call.sazData[i].type = role}
              last == CHOOSE i \in arrivals : \A j \in arrivals : j <= i
          IN Cardinality(arrivals) >= 2 =>
                call.merged[n][role] = call.sazData[last].raw

\* the value a JSON text stands for, read off the way the text was written:
\* of an object the members, a repeated key keeping its last value
ParsedValue(doc) ==
    IF doc.form = "object"
    THEN [type |-> "object",
          members |-> {doc.members[i] : i \in {k \in DOMAIN doc.members :
                          \A l \in DOMAIN doc.members :
                             l > k => doc.members[l][1] # doc.members[k][1]}}]
    ELSE [type |-> "primitive", members |-> {<<"", doc.text[1]>>}]

\* C19: on a candidate recorded with MIME application/json and a body text,
\* the body predicate is true exactly when the live body and the recorded
\* body are both valid JSON and stand for the same value, the order of the
\* keys disregarded; a live body that is not valid JSON never matches.
C19_JsonPredicate ==
    call.pc = "done" /\ call.fn = "compareBody" /\ call.recorded = "text" =>
       (call.result <=>
          /\ call.req.form \in {"object", "primitive"}
          /\ call.har.form \in {"object", "primitive"}
          /\ ParsedValue(call.req) = ParsedValue(call.har))

\* C22: a candidate with no recorded body text, its postData absent or
\* without a text string, satisfies the body predicate exactly when the live
\* body is empty, whatever its MIME type.
C22_NoRecordedTextMatchesEmptyOnly ==
    call.pc = "done" /\ call.fn = "compareBody" /\ call.recorded \in {"notext", "absent"}
    => (call.result <=> call.req.form = "empty")

\* a JSON candidate whose postData has no text has matched an empty body
\* and not matched the body {}
C22_Witness ==
    /\ call.pc = "done" /\ call.fn = "compareBody"
    /\ call.recorded = "notext" /\ call.mime = "application/json"
    /\ \/ call.req.form = "empty" /\ call.result
       \/ call.req.text = <<"{", "}">> /\ ~call.result

\* C20 as claimed: a body that JSON.parse rejects, on either side, makes the
\* candidate match.
C20_ParseFailureMatches ==
    call.pc = "done" /\ call.fn = "compareBody"
    /\ (call.req.form = "malformed" \/ call.har.form = "malformed")
    => call.result

\* C20: a body that JSON.parse rejects, on either side, makes the body
\* predicate false: the candidate does not match.  An empty body is read
\* as {} and is not rejected.
C20_ParseFailureNeverMatches ==
    call.pc = "done" /\ call.fn = "compareBody"
    /\ (call.req.form = "malformed" \/ call.har.form = "malformed")
    => ~call.result

\* the live body is malformed and the recorded one an object, the recorded
\* body is malformed and the live one an object, or both are the same
\* malformed text: no match
C20_Witness ==
    /\ call.pc = "done" /\ call.fn = "compareBody" /\ ~call.result
    /\ \/ call.req.form = "malformed" /\ call.har.form = "object"
       \/ call.req.form = "object" /\ call.har.form = "malformed"
       \/ call.req.form = "malformed" /\ call.req.text = call.har.text

(***************************************************************************)
(* Properties of the cursors.                                              *)
(***************************************************************************)
\* C16: in every reachable state, in the middle of a reload and after any
\* sequence of requests, resets and reloads, every endpoint present in the
\* index has a non-empty candidate list and a cursor c with
\* 0 <= c < length of that list.
C16_CursorInRange ==
    \A k \in Keys :
        harDataMap[k] # 0 =>
            /\ Len(heap[harDataMap[k]].entries) > 0
            /\ 0 <= heap[harDataMap[k]].currentIndex
            /\ heap[harDataMap[k]].currentIndex < Len(heap[harDataMap[k]].entries)

\* a loadHars call is under way and the index holds an endpoint whose
\* cursor stands on the last entry of a list of several
C16_Witness ==
    /\ \E l \in LoadIds : loads[l].pc # "idle"
    /\ \E k \in Keys :
          /\ harDataMap[k] # 0
          /\ heap[harDataMap[k]].currentIndex > 0
          /\ heap[harDataMap[k]].currentIndex = Len(heap[harDataMap[k]].entries) - 1

\* C17: no lost cursor update under interleaving.  When several
\* body-bearing requests to one endpoint are in flight together and end in
\* the fallback branch, each reads the cursor and advances it in one step:
\* the one that resumes is served the entry under the cursor and the others
\* find the cursor advanced by one, so K of them are served K consecutive
\* cycle positions from the initial cursor on and leave the cursor at
\* (initial + K) mod length.
C17_NoLostCursorUpdate ==
    /\ [](\A o \in ObjIds :
            heap[o].obs =>
               /\ \A k \in 1..Len(heap[o].fb) :
                     heap[o].fb[k]
                       = heap[o].entries[((heap[o].base + k - 1) % Len(heap[o].entries)) + 1]
               /\ heap[o].currentIndex
                     = (heap[o].base + Len(heap[o].fb)) % Len(heap[o].entries))
    /\ [][\A r \in Slots, b \in LiveBodies :
            BodyEnd(r, b) /\ ev'.how = "fallback" =>
               /\ ev'.served = heap[reqs[r].obj].entries[heap[reqs[r].obj].currentIndex + 1]
               /\ \A q \in Slots \ {r} :
                     reqs[q].pc = "await" /\ reqs[q].method = reqs[r].method
                     /\ reqs[q].path = reqs[r].path =>
                        /\ reqs'[q].pc = "await"
                        /\ heap'[reqs'[q].obj].currentIndex
                              = (heap[reqs[r].obj].currentIndex + 1)
                                  % Len(heap[reqs[r].obj].entries)
         ]_vars

\* a request has just been served by fallback from a list of several
\* entries while another request to the same endpoint, which arrived before
\* the body of the first was complete, is still suspended
C17_Witness ==
    /\ ev.kind = "body" /\ ev.how = "fallback" /\ Len(ev.list) >= 2
    /\ \E q \in Slots :
          /\ reqs[q].pc = "await" /\ reqs[q].method = ev.method /\ reqs[q].path = ev.path
          /\ heap[reqs[q].obj].currentIndex = (ev.cursor + 1) % Len(ev.list)

\* C18: the fallback order is the order in which the bodies complete, not the
\* order of arrival. When the body of a request B completes and B ends in
\* fallback while a request A to the same endpoint that arrived before B is
\* still waiting for its body, B is served the entry under the cursor, the
\* earlier cycle position, and A, if it ends in fallback next, is served the
\* position after it.
C18_FallbackOrderIsCompletionOrder ==
    [][\A B \in Slots, A \in Slots, b \in LiveBodies :
          /\ BodyEnd(B, b) /\ ev'.how = "fallback"
          /\ reqs[A].pc = "await" /\ reqs[A].rank < reqs[B].rank
          /\ reqs[A].method = reqs[B].method /\ reqs[A].path = reqs[B].path
          => LET entries == heap[reqs[B].obj].entries
                 cursor == heap[reqs[B].obj].currentIndex
             IN /\ ev'.served = entries[cursor + 1]
                /\ reqs'[A].pc = "await" /\ reqs'[A].rank = reqs[A].rank
                /\ \A a \in LiveBodies :
                      LET s == Select(heap'[reqs'[A].obj], reqs'[A].method, <<>>, a)
                      IN s.how = "fallback" =>
                            s.served = entries[((cursor + 1) % Len(entries)) + 1]
      ]_vars

\* B, which arrived after A, has just been served by fallback from a list
\* of several entries because its body completed first; A is still waiting
\* for its body, and a body with which A ends in fallback as well exists:
\* A is then served the position after the one B was served
C18_Witness ==
    /\ ev.kind = "body" /\ ev.how = "fallback" /\ Len(ev.list) >= 2
    /\ ev.rank >= 2
    /\ ev.served = ev.list[ev.cursor + 1]
    /\ \E A \in Slots :
          /\ reqs[A].pc = "await" /\ reqs[A].rank < ev.rank
          /\ reqs[A].method = ev.method /\ reqs[A].path = ev.path
          /\ \E a \in LiveBodies :
                LET s == Select(heap[reqs[A].obj], reqs[A].method, <<>>, a)
                IN /\ s.how = "fallback"
                   /\ s.served = ev.list[((ev.cursor + 1) % Len(ev.list)) + 1]
                   /\ s.served # ev.served

\* C23: selection depends only on the attribute of the method class.  From
\* the ReplayState a served request found, a request of a method with body
\* that differs from it in its query string only is served the same entry
\* the same way, and so is a request of a method without body that differs
\* from it in its body only.
C23_SelectionByClassAttribute ==
    ev.kind \in {"request", "body"} /\ ev.how \in {"match", "fallback"} =>
       LET st == [entries |-> ev.list, currentIndex |-> ev.cursor, obs |-> FALSE,
                  base |-> 0, fb |-> <<>>, nm |-> 0]
           same(s) == s.how = ev.how /\ s.served = ev.served
       IN IF ev.method \in METHODS_WITH_BODY
          THEN \A query \in LiveQueries : same(Select(st, ev.method, query, ev.body))
          ELSE \A body \in LiveBodies : same(Select(st, ev.method, ev.query, body))

\* a POST has been served by its body although its URL, had it carried the
\* query x=1&y=2, would not have the parameters of the recorded URL
C23_Witness ==
    /\ ev.kind = "body" /\ ev.how = "match" /\ ev.method = "POST" /\ ev.body # <<>>
    /\ ~compareQueryParams(QueryXY, EntryOf[ev.served].query)


(***************************************************************************)
(* An index load that finds nothing to index.                              *)
(***************************************************************************)
\* no loadHars call is under way
NoLoadUnderWay == \A l \in LoadIds : loads[l].pc = "idle"

\* the last index load found no document, or only documents that do not parse
NothingParsed == \A i \in DOMAIN loadedHarFiles : loadedHarFiles[i] = BrokenFile

\* C31: an index load that finds zero documents, or only documents that do
\* not parse, completes with an empty index; the server goes on taking
\* requests, and every replay request that arrives from then on (until
\* the next reload) is answered 404, the not-found outcome.
C31_EmptyLoadAnswersNotFound ==
    (NoLoadUnderWay /\ NothingParsed) =>
       /\ \A k \in Keys : harDataMap[k] = 0
       /\ (ev.kind = "request" => ev.status = 404 /\ ev.how = "notfound")
       /\ ENABLED (\E m \in Methods, p \in LivePaths, q \in LiveQueries :
                      ReplayRequest(m, p, q))

\* a request answered 404 after a load that found one document, which did not parse
C31_Witness ==
    /\ NoLoadUnderWay
    /\ loadedHarFiles = <<BrokenFile>>
    /\ ev.kind = "request" /\ ev.status = 404


(***************************************************************************)
(* Reloads that overlap.                                                   *)
(***************************************************************************)
\* C32: once every reload that was started (by reload, upload or delete
\* requests, in any interleaving) has completed, the candidate list of each
\* endpoint holds each entry of the documents now on disk exactly once, in
\* scan order.
C32_OverlappingReloadsKeepIndex ==
    NoLoadUnderWay =>
       \A k \in Keys :
          (IF harDataMap[k] = 0 THEN <<>> ELSE heap[harDataMap[k]].entries)
             = CompleteList(k, disk)


\* C33: when a reload completes, the cursor of every endpoint in the live
\* index is 0, even if replay requests were served while the reload was in
\* progress.
C33_CursorsZeroAfterReload ==
    ev.kind = "loaded" =>
       \A k \in Keys : harDataMap[k] # 0 => heap[harDataMap[k]].currentIndex = 0


(***************************************************************************)
(* From the converter to the matcher.                                      *)
(***************************************************************************)
\* the parameters of two form bodies are the same, whatever their order
SameParameters(ps, qs) ==
    /\ Len(ps) = Len(qs)
    /\ \A i \in DOMAIN ps :
          Cardinality({j \in DOMAIN ps : ps[j] = ps[i]})
             = Cardinality({j \in DOMAIN qs : qs[j] = ps[i]})

\* C34: a captured POST whose request has the Content-Type
\* application/x-www-form-urlencoded and a non-empty body is, after the
\* conversion, attribute-matched by a live POST that carries the same form
\* parameters, in any order.
C34_FormBodyRoundTrip ==
    (/\ call.pc = "done" /\ call.fn = "parseHttpRequest, compareBody"
     /\ call.mime = "application/x-www-form-urlencoded"
     /\ call.har.params # <<>>
     /\ SameParameters(call.req.params, call.har.params))
       => call.result


(***************************************************************************)
(* Requests of the methods without body.                                   *)
(***************************************************************************)
\* C35: for the methods other than POST, PUT, PATCH and DELETE the lookup,
\* the attribute match and the fallback advance of one request are a
\* single step with no suspension point: no such request is ever found
\* suspended, and one that ends in fallback is served the entry under the
\* cursor as it is when the request arrives and leaves the cursor one
\* further, so that the next such request to the endpoint that ends in
\* fallback is served the next cycle position: arrival order.
C35_BodylessRequestsInArrivalOrder ==
    /\ [](\A r \in Slots :
            reqs[r].pc = "await" => reqs[r].method \in {"POST", "PUT", "PATCH", "DELETE"})
    /\ [][\A m \in Methods \ {"POST", "PUT", "PATCH", "DELETE"},
             p \in LivePaths, q \in LiveQueries :
            ReplayRequest(m, p, q) /\ ev'.how = "fallback" =>
               LET o == harDataMap[<<m, p>>]
                   entries == heap[o].entries
                   cursor == heap[o].currentIndex
               IN /\ ev'.served = entries[cursor + 1]
                  /\ reqs' = reqs /\ harDataMap' = harDataMap
                  /\ heap'[o].entries = entries
                  /\ heap'[o].currentIndex = (cursor + 1) % Len(entries)
                  /\ \A next \in LiveQueries :
                        LET s == Select(heap'[o], m, next, <<>>)
                        IN s.how = "fallback" =>
                              s.served = entries[((cursor + 1) % Len(entries)) + 1]
         ]_vars

\* two GET requests in a row have been served by fallback from a list of
\* several entries, the second one the position after the first
C35_Witness ==
    /\ ev.kind = "request" /\ ev.method = "GET" /\ ev.how = "fallback"
    /\ Len(ev.list) >= 2 /\ ev.cursor = 1 /\ ev.served = ev.list[2]
    /\ \E o \in ObjIds :
          /\ harDataMap[<<"GET", ev.path>>] = o
          /\ Len(heap[o].fb) >= 2 /\ heap[o].nm = 0
          /\ heap[o].fb[Len(heap[o].fb)] = ev.served
          /\ heap[o].fb[Len(heap[o].fb) - 1] = ev.list[1]


(***************************************************************************)
(* A request that is older than the index.                                 *)
(***************************************************************************)
\* the candidate list of key k in the live index, <<>> when it has none
LiveList(map, h, k) == IF map[k] = 0 THEN <<>> ELSE h[map[k]].entries

\* C36: a body-bearing request whose lookup preceded a reload and which is
\* served by fallback after that reload has completed is served from the
\* candidate list it captured before the reload and advances the cursor of
\* that list only: the lists and the cursors of the live index are after
\* the request what they were before it.
C36_StaleRequestLeavesLiveIndex ==
    [][\A r \in Slots, b \in LiveBodies :
          BodyEnd(r, b) /\ reqs[r].phase = 2 /\ ev'.how = "fallback" =>
             /\ ev'.list = reqs[r].pre
             /\ ev'.served = reqs[r].pre[heap[reqs[r].obj].currentIndex + 1]
             /\ \A k \in Keys :
                   /\ harDataMap[k] # reqs[r].obj
                   /\ LiveCursor(harDataMap', heap', k) = LiveCursor(harDataMap, heap, k)
                   /\ LiveList(harDataMap', heap', k) = LiveList(harDataMap, heap, k)
      ]_vars

\* a request that arrived before a reload has been served by fallback
\* after the reload completed, and the live index holds a list of several
\* entries for its endpoint, with the cursor at 0
C36_Witness ==
    /\ ev.kind = "body" /\ ev.phase = 2 /\ ev.how = "fallback"
    /\ ev.list = ev.pre
    /\ Len(LiveList(harDataMap, heap, <<ev.method, ev.path>>)) >= 2
    /\ LiveCursor(harDataMap, heap, <<ev.method, ev.path>>) = 0


(***************************************************************************)
(* The answer to an upload.                                                *)
(***************************************************************************)
\* C37: every upload request is answered with exactly one response: on no
\* path of the handler (success, unsupported file type, failed conversion
\* or processing) is a response head written after the response has been
\* ended, and when the handler is through exactly one head has been
\* written and the response is ended.
C37_OneResponsePerUpload ==
    call.fn = "_handleUpload" =>
       /\ ~call.res.late
       /\ (call.pc = "done" => call.res.finished /\ call.res.heads = 1)

====
